---------------------------- MODULE Spec2Model ----------------------------
(***************************************************************************)
(* Model of oca-utils: the copy workflow (copier.py), the export workflow  *)
(* (exporter.py) and the tag parsing they share (utilitaires.py,           *)
(* constantes.py).                                                         *)
(*                                                                         *)
(* Text is modelled character by character: a Python str is a sequence of  *)
(* one-character strings, so that split, the regular expressions, int(),   *)
(* str(), the f-string padding and unidecode are computed, not assumed.    *)
(* The accented letters are written as ASCII atoms: "e_aigu" is e-acute,   *)
(* "e_grave" e-grave, "e_circ" e-circumflex, "o_circ" o-circumflex.        *)
(***************************************************************************)
EXTENDS Integers, Sequences, FiniteSets, TLC

(***************************************************************************)
(* State.                                                                  *)
(*   cmd, source, infos, full, dry_run, remplace   the command run and its *)
(*       inputs: the media files of the source directory in the order the  *)
(*       walk yields them, information.yaml, the flags of the command      *)
(*   sortie        the export file: "absent", "ancien" (there before the   *)
(*       run) or "export" (written by the run)                             *)
(*   reps, dest    the destination tree: its directories, and its files    *)
(*       as records [chemin, contenu, mtime, meta]                         *)
(*   tmp           content of the temporary file of the anonymizer         *)
(*   journal       what was logged and what was done, in order             *)
(*   pc, idx, isp  position of the command: step, file, species entry      *)
(*   observations  the rows of the export, in order                        *)
(*   arg, res      the arguments and the result of a function of           *)
(*       utilitaires, copier or exporter called on its own                 *)
(*   passe         the runs of copier made before this one on the same     *)
(*       source and destination: what each read and how it was run         *)
(*   origine       the files of the source directory: name, content and    *)
(*       modification time of the manifest, the listed files and their     *)
(*       sidecar files                                                     *)
(*   the others    the local variables of copier and exporter              *)
(***************************************************************************)
VARIABLES cmd, source, infos, full, dry_run, remplace, sortie, reps, dest,
          tmp, journal, pc, idx, isp, dernier, releves, rep_racine, seq,
          tags, sp, nb, det, racine, fi, dc, latitude, longitude, altitude,
          observations, arg, res, passe, origine

vars == <<cmd, source, infos, full, dry_run, remplace, sortie, reps, dest,
          tmp, journal, pc, idx, isp, dernier, releves, rep_racine, seq,
          tags, sp, nb, det, racine, fi, dc, latitude, longitude, altitude,
          observations, arg, res, passe, origine>>


(***************************************************************************)
(* Characters and Python's character classes.                              *)
(***************************************************************************)
Chiffres == <<"0", "1", "2", "3", "4", "5", "6", "7", "8", "9">>

Accents == {"e_aigu", "e_grave", "e_circ", "o_circ"}

Ascii == {"a", "b", "c", "d", "e", "f", "g", "h", "i", "j", "k", "l", "m",
          "n", "o", "p", "q", "r", "s", "t", "u", "v", "w", "x", "y", "z",
          "A", "B", "C", "D", "E", "F", "G", "H", "I", "J", "K", "L", "M",
          "N", "O", "P", "Q", "R", "S", "T", "U", "V", "W", "X", "Y", "Z"}

EstChiffre(c) == \E i \in 1..Len(Chiffres) : Chiffres[i] = c

\* \w of Python 3's re on str: Unicode letters, digits and the underscore.
EstMot(c) == c \in Ascii \/ c \in Accents \/ EstChiffre(c) \/ c = "_"

\* \s
EstEspace(c) == c = " "

Max(S) == CHOOSE m \in S : \A k \in S : k <= m

Min(S) == CHOOSE m \in S : \A k \in S : m <= k

(***************************************************************************)
(* str primitives.                                                         *)
(***************************************************************************)
RECURSIVE Join(_, _)
\* sep.join(parts)
Join(parts, sep) ==
    IF Len(parts) = 0 THEN <<>>
    ELSE IF Len(parts) = 1 THEN parts[1]
    ELSE parts[1] \o sep \o Join(Tail(parts), sep)

RECURSIVE Split(_, _)
\* s.split(c) for a one-character separator c
Split(s, c) ==
    LET pos == {i \in 1..Len(s) : s[i] = c}
    IN  IF pos = {} THEN <<s>>
        ELSE <<SubSeq(s, 1, Min(pos) - 1)>>
                 \o Split(SubSeq(s, Min(pos) + 1, Len(s)), c)

Dernier(l) == l[Len(l)]

\* re.match of a literal prefix followed by .* : the string starts with p
Commence(s, p) == Len(s) >= Len(p) /\ SubSeq(s, 1, Len(p)) = p

ValeurChiffre(c) == (CHOOSE i \in 1..Len(Chiffres) : Chiffres[i] = c) - 1

RECURSIVE Entier(_)
\* int(s) for a string of decimal digits
Entier(s) ==
    IF Len(s) = 0 THEN 0
    ELSE 10 * Entier(SubSeq(s, 1, Len(s) - 1)) + ValeurChiffre(s[Len(s)])

RECURSIVE Str(_)
\* str(n) for n >= 0
Str(n) ==
    IF n < 10 THEN <<Chiffres[n + 1]>>
    ELSE Str(n \div 10) \o <<Chiffres[(n % 10) + 1]>>

RECURSIVE Pad(_, _)
\* f"{n:0w}" is Pad(Str(n), w): zeros on the left up to the width, never cut
Pad(s, w) == IF Len(s) >= w THEN s ELSE Pad(<<"0">> \o s, w)

\* Code point order on the characters a date is made of.
Rang(c) == IF EstChiffre(c) THEN ValeurChiffre(c) ELSE 10

RECURSIVE Inferieur(_, _)
\* a < b on str (lexicographic)
Inferieur(a, b) ==
    IF Len(b) = 0 THEN FALSE
    ELSE IF Len(a) = 0 THEN TRUE
    ELSE IF a[1] = b[1] THEN Inferieur(Tail(a), Tail(b))
    ELSE Rang(a[1]) < Rang(b[1])

InfEgal(a, b) == a = b \/ Inferieur(a, b)

\* sorted(l) for a list of str: the permutation of l in ascending order
RECURSIVE Sorted(_)
Sorted(l) ==
    IF Len(l) = 0 THEN <<>>
    ELSE LET i == CHOOSE i \in 1..Len(l) :
                      \A j \in 1..Len(l) : InfEgal(l[i], l[j])
         IN  <<l[i]>> \o Sorted(SubSeq(l, 1, i - 1) \o SubSeq(l, i + 1, Len(l)))

UnidecodeCar(c) ==
    CASE c \in {"e_aigu", "e_grave", "e_circ"} -> "e"
      [] c = "o_circ" -> "o"
      [] OTHER -> c

\* unidecode(s): every character to its closest ASCII form
Unidecode(s) == [i \in 1..Len(s) |-> UnidecodeCar(s[i])]

(***************************************************************************)
(* constantes.py                                                           *)
(***************************************************************************)
sRandonneur == <<"R", "a", "n", "d", "o", "n", "n", "e", "u", "r">>
sCycliste == <<"C", "y", "c", "l", "i", "s", "t", "e">>
sChasseur == <<"C", "h", "a", "s", "s", "e", "u", "r">>
sCueilleur == <<"C", "u", "e", "i", "l", "l", "e", "u", "r">>
sTraileur == <<"T", "r", "a", "i", "l", "e", "u", "r">>
sAgriculteur == <<"A", "g", "r", "i", "c", "u", "l", "t", "e", "u", "r">>
sPecheur == <<"P", "e_circ", "c", "h", "e", "u", "r">>

NON_FAUNE == {sAgriculteur, sChasseur, sCueilleur, sCycliste, sPecheur,
              sRandonneur, sTraileur}

sNature == <<"N", "a", "t", "u", "r", "e">>
sQuantite == <<"Q", "u", "a", "n", "t", "i", "t", "e_aigu">>
sDetails == <<"D", "e_aigu", "t", "a", "i", "l", "s">>
sInconnu == <<"I", "n", "c", "o", "n", "n", "u">>

\* MEDIA_PAT = \.(MP4|mp4|JPG|jpg), used with re.match on a file suffix
MEDIA_PAT(suffixe) ==
    \E m \in {<<".", "M", "P", "4">>, <<".", "m", "p", "4">>,
              <<".", "J", "P", "G">>, <<".", "j", "p", "g">>} :
        Commence(suffixe, m)

\* NATURE_PAT = Nature.* , QTE_PAT = Quantité.* , DET_PAT = Détails.*
NATURE_PAT(t) == Commence(t, sNature)

QTE_PAT(t) == Commence(t, sQuantite)

DET_PAT(t) == Commence(t, sDetails)

sPrefixeCommune == <<
    "C", "o", "n", "t", "i", "n", "e", "n", "t", "s", " ", "e", "t", " ",
    "p", "a", "y", "s", "|", "E", "u", "r", "o", "p", "e", "|", "F", "r",
    "a", "n", "c", "e", " ", "{", "F", "r", "a", "n", "c", "e", "}", " ",
    "{", "F", "R", "}", " ", "{", "F", "R", "A", "}", "|", "A", "u", "v",
    "e", "r", "g", "n", "e", "-", "R", "h", "o_circ", "n", "e", "-", "A",
    "l", "p", "e", "s", "|", "I", "s", "e_grave", "r", "e", "|">>

\* COMMUNE_PAT = <the path of the department>\|(.*) used with match: the tag
\* starts with the path, and group 1 is what follows it
COMMUNE_PAT(t) == Commence(t, sPrefixeCommune)

\* The characters (\w|\s|') and (\w|\s) of ESPECE_PAT, NB_PAT, DETAILS_PAT
CarEspece(c) == EstMot(c) \/ EstEspace(c) \/ c = "'"

CarNb(c) == EstMot(c) \/ EstEspace(c)

\* Length of the longest run of characters of a class that starts at s[i]
RECURSIVE Course(_, _, _)
Course(s, i, classe) ==
    IF i > Len(s) THEN 0
    ELSE IF ~(CASE classe = "espece" -> CarEspece(s[i])
                [] classe = "nb" -> CarNb(s[i])
                [] OTHER -> EstChiffre(s[i])) THEN 0
    ELSE 1 + Course(s, i + 1, classe)

\* re.search(ESPECE_PAT, s) with ESPECE_PAT = (\w|\s|')+ { : the leftmost
\* start, and from it the longest group that a space and a brace follow.
\* The result is <<start, end of the group>>, or <<>> when nothing matches.
ESPECE_PAT(s) ==
    LET fins(i) == LET c == Course(s, i, "espece")
                   IN  {m \in i..(i + c - 1) :
                           /\ m + 2 <= Len(s)
                           /\ s[m + 1] = " "
                           /\ s[m + 2] = "{"}
        debuts == {i \in 1..Len(s) : fins(i) # {}}
    IN  IF debuts = {} THEN <<>>
        ELSE <<Min(debuts), Max(fins(Min(debuts)))>>

\* re.search(NB_PAT, s) with NB_PAT = ((\w|\s)+)_(\d+) : <<group 1, group 3>>
NB_PAT(s) ==
    LET fins(i) == LET c == Course(s, i, "nb")
                   IN  {m \in i..(i + c - 1) :
                           /\ m + 2 <= Len(s)
                           /\ s[m + 1] = "_"
                           /\ EstChiffre(s[m + 2])}
        debuts == {i \in 1..Len(s) : fins(i) # {}}
    IN  IF debuts = {} THEN <<>>
        ELSE LET i == Min(debuts)
                 m == Max(fins(i))
             IN  <<SubSeq(s, i, m),
                   SubSeq(s, m + 2, m + 1 + Course(s, m + 2, "chiffre"))>>

\* re.search(DETAILS_PAT, s) with DETAILS_PAT = ((\w|\s)+)_((\w|\s)+)
DETAILS_PAT(s) ==
    LET fins(i) == LET c == Course(s, i, "nb")
                   IN  {m \in i..(i + c - 1) :
                           /\ m + 2 <= Len(s)
                           /\ s[m + 1] = "_"
                           /\ CarNb(s[m + 2])}
        debuts == {i \in 1..Len(s) : fins(i) # {}}
    IN  IF debuts = {} THEN <<>>
        ELSE LET i == Min(debuts)
                 m == Max(fins(i))
             IN  <<SubSeq(s, i, m),
                   SubSeq(s, m + 2, m + 1 + Course(s, m + 2, "nb"))>>

\* The characters [\sa-zA-Z'] of OCA_PAT
CarOCA(c) == c \in Ascii \/ EstEspace(c) \/ c = "'"

RECURSIVE CourseOCA(_, _)
\* Length of the longest run of characters of OCA_PAT that starts at s[i]
CourseOCA(s, i) ==
    IF i > Len(s) THEN 0
    ELSE IF ~CarOCA(s[i]) THEN 0
    ELSE 1 + CourseOCA(s, i + 1)

\* OCA_PAT.match(s) with OCA_PAT = IMG_\d{4}_([\sa-zA-Z']*)_(\d*).* :
\* <<group 1, group 2>>, or <<>> when s does not match.  Group 1 is the
\* run of its class after IMG_dddd_, which an underscore must follow (no
\* shorter group can be followed by one); group 2 is the digits after it.
OCA_PAT(s) ==
    IF ~(/\ Len(s) >= 9
         /\ SubSeq(s, 1, 4) = <<"I", "M", "G", "_">>
         /\ \A i \in 5..8 : EstChiffre(s[i])
         /\ s[9] = "_")
    THEN <<>>
    ELSE LET m == 10 + CourseOCA(s, 10)
         IN  IF m <= Len(s) /\ s[m] = "_"
             THEN <<SubSeq(s, 10, m - 1),
                    SubSeq(s, m + 1, m + Course(s, m + 1, "chiffre"))>>
             ELSE <<>>

(***************************************************************************)
(* utilitaires.py                                                          *)
(***************************************************************************)
RECURSIVE noms(_)
\* Species names: one entry per tag that starts with Nature
noms(ts) ==
    IF Len(ts) = 0 THEN <<>>
    ELSE LET t == ts[1]
             seg == Dernier(Split(t, "|"))
             spr == ESPECE_PAT(seg)
             nom == IF spr # <<>> THEN SubSeq(seg, spr[1], spr[2])
                    ELSE sInconnu
         IN  (IF NATURE_PAT(t) THEN <<nom>> ELSE <<>>) \o noms(Tail(ts))

RECURSIVE qte(_)
\* Quantities: one single-entry mapping {species: digits} per Quantité tag
qte(ts) ==
    IF Len(ts) = 0 THEN <<>>
    ELSE LET t == ts[1]
             nbr == NB_PAT(Dernier(Split(t, "|")))
             n == IF nbr # <<>> THEN [cle |-> nbr[1], val |-> nbr[2]]
                  ELSE [cle |-> sInconnu, val |-> <<"1">>]
         IN  (IF QTE_PAT(t) THEN <<n>> ELSE <<>>) \o qte(Tail(ts))

RECURSIVE details(_)
\* Details: one single-entry mapping {species: text} per Détails tag
details(ts) ==
    IF Len(ts) = 0 THEN <<>>
    ELSE LET t == ts[1]
             d == DETAILS_PAT(Dernier(Split(t, "|")))
             detail == IF d # <<>> THEN [cle |-> d[1], val |-> d[2]]
                       ELSE [cle |-> sInconnu, val |-> <<>>]
         IN  (IF DET_PAT(t) THEN <<detail>> ELSE <<>>) \o details(Tail(ts))

sCanides == <<"C", "a", "n", "i", "d", "e_aigu", "s">>
sCANIDE_SP == <<"C", "A", "N", "I", "D", "E", " ", "S", "P">>

\* Correction of the species names that OCA spells differently
corrige(s) == IF s = sCanides THEN sCANIDE_SP ELSE s

\* DEPT_PAT = FR\d\d_ and re.sub(DEPT_PAT, "", s): every occurrence removed
RECURSIVE SansDept(_)
SansDept(s) ==
    IF Len(s) = 0 THEN <<>>
    ELSE IF /\ Len(s) >= 5
            /\ s[1] = "F" /\ s[2] = "R"
            /\ EstChiffre(s[3]) /\ EstChiffre(s[4]) /\ s[5] = "_"
         THEN SansDept(SubSeq(s, 6, Len(s)))
         ELSE <<s[1]>> \o SansDept(Tail(s))

\* s.replace("_", "")
SansSouligne(s) == SelectSeq(s, LAMBDA c : c # "_")

(***************************************************************************)
(* The source directory: the media files the commands may find in it.     *)
(* A media file is known by its index in Catalogue.                        *)
(*   date     the date field of its name, IMG_<date>_<time>_<nn><suffix>;  *)
(*            empty for a file that still has the name the camera gave it  *)
(*   hs       the values of XMP:HierarchicalSubject (none: tag absent)     *)
(*   sidecar  whether <name>.xmp exists beside it                          *)
(*   champs   the date tags it carries, among the four the export reads    *)
(*   gps      <<latitude, longitude, altitude>>, or <<>> without GPS tags; *)
(*            latitude and longitude in thousandths of a degree            *)
(* The seventh file is the sidecar of the first one: a file of the         *)
(* directory that is no media file.  The eighth was never renamed.  The    *)
(* ninth has accented letters in its species and in its detail.            *)
(***************************************************************************)
s20240515 == <<"2", "0", "2", "4", "0", "5", "1", "5">>

s20240601 == <<"2", "0", "2", "4", "0", "6", "0", "1">>

s20240602 == <<"2", "0", "2", "4", "0", "6", "0", "2">>

s20240625 == <<"2", "0", "2", "4", "0", "6", "2", "5">>

s20240715 == <<"2", "0", "2", "4", "0", "7", "1", "5">>

sJpg == <<".", "j", "p", "g">>

sMp4 == <<".", "m", "p", "4">>

sXmp == <<".", "x", "m", "p">>

tRenard == <<"N", "a", "t", "u", "r", "e", "|", "M", "a", "m", "m", "i",
    "f", "e_grave", "r", "e", "s", "|", "R", "e", "n", "a", "r", "d", " ",
    "{", "V", "u", "l", "p", "e", "s", " ", "v", "u", "l", "p", "e", "s",
    "}">>

tRenard2 == <<"Q", "u", "a", "n", "t", "i", "t", "e_aigu", "|", "R", "e",
    "n", "a", "r", "d", "_", "2">>

tRandonneur == <<"N", "a", "t", "u", "r", "e", "|", "A", "c", "t", "i",
    "v", "i", "t", "e_aigu", " ", "h", "u", "m", "a", "i", "n", "e", "|",
    "R", "a", "n", "d", "o", "n", "n", "e", "u", "r", " ", "{", "h", "}">>

tLoup == <<"N", "a", "t", "u", "r", "e", "|", "M", "a", "m", "m", "i", "f",
    "e_grave", "r", "e", "s", "|", "L", "o", "u", "p", " ", "{", "C", "a",
    "n", "i", "s", " ", "l", "u", "p", "u", "s", "}">>

tLoupBis == <<"N", "a", "t", "u", "r", "e", "|", "L", "o", "u", "p", " ",
    "{", "b", "}">>

tLoup3 == <<"Q", "u", "a", "n", "t", "i", "t", "e_aigu", "|", "L", "o",
    "u", "p", "_", "3">>

tLoupMale == <<"D", "e_aigu", "t", "a", "i", "l", "s", "|", "L", "o", "u",
    "p", "_", "m", "a", "l", "e">>

tCanides == <<"N", "a", "t", "u", "r", "e", "|", "M", "a", "m", "m", "i",
    "f", "e_grave", "r", "e", "s", "|", "C", "a", "n", "i", "d", "e_aigu",
    "s", " ", "{", "c", "}">>

tCanides2 == <<"Q", "u", "a", "n", "t", "i", "t", "e_aigu", "|", "C", "a",
    "n", "i", "d", "e_aigu", "s", "_", "2">>

tAutrans == <<
    "C", "o", "n", "t", "i", "n", "e", "n", "t", "s", " ", "e", "t", " ",
    "p", "a", "y", "s", "|", "E", "u", "r", "o", "p", "e", "|", "F", "r",
    "a", "n", "c", "e", " ", "{", "F", "r", "a", "n", "c", "e", "}", " ",
    "{", "F", "R", "}", " ", "{", "F", "R", "A", "}", "|", "A", "u", "v",
    "e", "r", "g", "n", "e", "-", "R", "h", "o_circ", "n", "e", "-", "A",
    "l", "p", "e", "s", "|", "I", "s", "e_grave", "r", "e", "|", "A", "u",
    "t", "r", "a", "n", "s">>

sLoup == <<"L", "o", "u", "p">>

tLievre == <<"N", "a", "t", "u", "r", "e", "|", "M", "a", "m", "m", "i",
    "f", "e_grave", "r", "e", "s", "|", "L", "i", "e_grave", "v", "r", "e", " ",
    "{", "L", "e", "p", "u", "s", " ", "e", "u", "r", "o", "p", "a", "e", "u",
    "s", "}">>

tLievreBlesse == <<"D", "e_aigu", "t", "a", "i", "l", "s", "|", "L", "i",
    "e_grave", "v", "r", "e", "_", "b", "l", "e", "s", "s", "e_aigu">>

Catalogue == <<
    [date |-> s20240515, suffixe |-> sJpg,
     hs |-> <<tRenard, tRenard2, tAutrans>>,
     sidecar |-> TRUE, champs |-> {"EXIF:DateTimeOriginal"},
     gps |-> <<45120, 5730, 900>>],
    [date |-> s20240602, suffixe |-> sJpg, hs |-> <<tRenard, tRenard2>>,
     sidecar |-> FALSE,
     champs |-> {"XMP:CreateDate", "QuickTime:MediaCreateDate"},
     gps |-> <<44950, 5600, 1200>>],
    [date |-> s20240601, suffixe |-> sMp4,
     hs |-> <<tRandonneur, tLoup, tLoupMale>>,
     sidecar |-> TRUE, champs |-> {"QuickTime:MediaCreateDate"},
     gps |-> <<45120, 5730, 900>>],
    [date |-> s20240625, suffixe |-> sJpg, hs |-> <<>>,
     sidecar |-> FALSE, champs |-> {}, gps |-> <<>>],
    [date |-> s20240715, suffixe |-> sJpg,
     hs |-> <<tLoup, tLoupBis, tLoup3>>,
     sidecar |-> FALSE,
     champs |-> {"XMP:DateTimeOriginal", "XMP:CreateDate"},
     gps |-> <<45123, 5731, 1000>>],
    [date |-> s20240625, suffixe |-> sJpg,
     hs |-> <<tCanides2, tCanides>>,
     sidecar |-> FALSE, champs |-> {"EXIF:DateTimeOriginal", "XMP:CreateDate"},
     gps |-> <<>>],
    [date |-> s20240515, suffixe |-> sXmp, hs |-> <<>>,
     sidecar |-> FALSE, champs |-> {}, gps |-> <<>>],
    [date |-> <<>>, suffixe |-> sJpg, hs |-> <<tRenard>>,
     sidecar |-> FALSE, champs |-> {}, gps |-> <<>>],
    [date |-> s20240601, suffixe |-> sJpg,
     hs |-> <<tLievre, tLievreBlesse>>,
     sidecar |-> FALSE, champs |-> {"EXIF:DateTimeOriginal"},
     gps |-> <<45120, 5730, 900>>]
>>

Fichiers == 1..Len(Catalogue)

\* f.name
Nom(f) ==
    IF Catalogue[f].date = <<>>
    THEN <<"D", "S", "C", "F", "0", "0", "0">> \o Str(f)
             \o Catalogue[f].suffixe
    ELSE <<"I", "M", "G", "_">> \o Catalogue[f].date
             \o <<"_", "1", "0", "1", "0", "1", "0", "_", "0">> \o Str(f)
             \o Catalogue[f].suffixe

\* What the metadata tool returns for XMP:HierarchicalSubject: nothing when
\* the tag is absent, a list when it has several values.
HierarchicalSubject(f) == Catalogue[f].hs

sInformationYaml == <<"i", "n", "f", "o", "r", "m", "a", "t", "i", "o",
    "n", ".", "y", "a", "m", "l">>

sCamA == <<"C", "a", "m", "A">>

sParent == <<"F", "R", "3", "8", "_", "V", "e", "r", "c", "o", "r", "s">>

sDossier == <<"2", "0", "2", "4", "_", "0", "6">>

s00000000 == <<"0", "0", "0", "0", "0", "0", "0", "0">>

sIMG == <<"I", "M", "G", "_">>

d01062024 == <<"0", "1", "/", "0", "6", "/", "2", "0", "2", "4">>

d20062024 == <<"2", "0", "/", "0", "6", "/", "2", "0", "2", "4">>

d01072024 == <<"0", "1", "/", "0", "7", "/", "2", "0", "2", "4">>

(***************************************************************************)
(* Bounds of the model.                                                    *)
(***************************************************************************)
MaxFichiers == 2

MaxReleves == 2

MaxExport == 3

\* The survey dates a manifest may list, as written in information.yaml
DatesReleve == {d01062024, d20062024, d01072024}

\* The sequences of at most n distinct elements of S
SeqSansRepetition(S, n) ==
    UNION {{q \in [1..k -> S] : \A i, j \in 1..k : i # j => q[i] # q[j]} :
           k \in 0..n}

(***************************************************************************)
(* copier.py: pure parts                                                   *)
(***************************************************************************)
\* Date from DD/MM/YYYY to the OCA format YYYYMMDD
date_oca(dt) ==
    LET dts == Split(dt, "/")
    IN  Join(<<dts[3], dts[2], dts[1]>>, <<>>)

\* Name of the root directory: camera, parent directory without its
\* department code, directory without underscores
RepRacine(nom, p2, p1) ==
    Join(<<nom, SansDept(p2), SansSouligne(p1)>>, <<"_">>)

\* rep_destination / a / b / ... : an empty component adds nothing
Chemin(parts) == SelectSeq(parts, LAMBDA c : c # <<>>)

\* What copier reads and extracts from each file of the catalogue: the
\* date field of the name (f.name.split("_")[1], which is there when the
\* name has an underscore: indexable), the classification tags, and the
\* species, quantities and details found in them
Classement ==
    [f \in Fichiers |->
        LET lus == HierarchicalSubject(f)
            champs == Split(Nom(f), "_")
        IN  [indexable |-> Len(champs) >= 2,
             date_prise |-> IF Len(champs) >= 2 THEN champs[2] ELSE <<>>,
             tags |-> lus,
             sp |-> noms(lus),
             nb |-> qte(lus),
             det |-> details(lus)]]

DatePrise(f) == Classement[f].date_prise

\* A media file goes through the copy when the copy is full or when its
\* date is after the last survey already copied
Eligible(f, complet, dern) == complet \/ Inferieur(dern, DatePrise(f))

RECURSIVE Quantite(_, _, _)
\* qt after the loop over nb, started with qt
Quantite(s, n, qt) ==
    IF Len(n) = 0 THEN qt
    ELSE Quantite(s, Tail(n),
                  IF n[1].cle = s THEN Entier(n[1].val)
                  ELSE IF qt < 1 THEN 1 ELSE qt)

RECURSIVE Detail(_, _, _)
\* de after the loop over det, started with de
Detail(s, d, de) ==
    IF Len(d) = 0 THEN de
    ELSE Detail(s, Tail(d), IF d[1].cle = s THEN d[1].val ELSE de)

\* The detail appended whatever it is
NomDestToujoursDetail(rac, s, n, d, suffixe) ==
    Unidecode(rac \o <<"_">> \o corrige(s) \o <<"_">>
                  \o Str(Quantite(s, n, 1)) \o <<"_">>
                  \o Detail(s, d, <<>>) \o suffixe)

\* Name of the copy of a file for one species entry
NomDest(rac, s, n, d, suffixe) ==
    LET qt == Quantite(s, n, 1)
        de == Detail(s, d, <<>>)
    IN  Unidecode(IF Len(de) = 0
                  THEN rac \o <<"_">> \o corrige(s) \o <<"_">> \o Str(qt)
                           \o suffixe
                  ELSE rac \o <<"_">> \o corrige(s) \o <<"_">> \o Str(qt)
                           \o <<"_">> \o de \o suffixe)

\* The loop without its break: the last survey date listed
SousRepSansArret(date_prise, dts, ssrep) ==
    IF Len(dts) = 0 THEN ssrep ELSE Dernier(dts)

RECURSIVE SousRep(_, _, _)
\* ssrep after the loop over the survey dates, started with ssrep
SousRep(date_prise, dts, ssrep) ==
    IF Len(dts) = 0 THEN ssrep
    ELSE IF InfEgal(date_prise, dts[1]) THEN dts[1]
    ELSE SousRep(date_prise, Tail(dts), dts[1])

\* The file itself, whatever its species
SourceCopieOriginal(sph) == "orig"

\* fi: the temporary file when a species of the file is a human activity,
\* the file itself otherwise
SourceCopie(sph) == IF sph > 0 THEN "tmp" ELSE "orig"

\* The number never advanced: every file gets the first one
RacineFixe(n) == sIMG \o Pad(Str(1), 4)

\* The numbering started at zero
RacineDecalee(n) == sIMG \o Pad(Str(n - 1), 4)

\* racine = f"IMG_{seq:04}"
Racine(n) == sIMG \o Pad(Str(n), 4)

RECURSIVE BoucleRelevesInverse(_, _, _, _)
\* The test of the loop inverted: the last survey whose directory is
\* missing is remembered
BoucleRelevesInverse(dts, rac, r, dern) ==
    IF Len(dts) = 0 THEN [reps |-> r, dernier |-> dern, crees |-> <<>>]
    ELSE IF <<rac, dts[1]>> \in r
         THEN BoucleRelevesInverse(Tail(dts), rac, r, dern)
         ELSE LET suite == BoucleRelevesInverse(Tail(dts), rac,
                                                r \cup {<<rac, dts[1]>>},
                                                dts[1])
              IN  [suite EXCEPT !.crees = <<dts[1]>> \o @]

RECURSIVE BoucleReleves(_, _, _, _)
\* The loop over sorted(relevés): the last survey whose directory is there
\* is remembered, the directory of every other survey is created
BoucleReleves(dts, rac, r, dern) ==
    IF Len(dts) = 0 THEN [reps |-> r, dernier |-> dern, crees |-> <<>>]
    ELSE IF <<rac, dts[1]>> \in r
         THEN BoucleReleves(Tail(dts), rac, r, dts[1])
         ELSE LET suite == BoucleReleves(Tail(dts), rac,
                                         r \cup {<<rac, dts[1]>>}, dern)
              IN  [suite EXCEPT !.crees = <<dts[1]>> \o @]

entrees == <<cmd, source, infos, full, dry_run, remplace>>

\* The variables of a function called on its own
appel == <<arg, res>>

\* The variables of the export alone
export == <<sortie, dc, latitude, longitude, altitude, observations>>

\* The root directory the copy of this source directory goes to
RacineOCA == RepRacine(sCamA, sParent, sDossier)

Mtime(f) == 100 + f

Evt(op, f, a, b) == [op |-> op, f |-> f, a |-> a, b |-> b]

\* The files of the tree once the file at path g is written
Ecrire(d, g, contenu, mtime, meta) ==
    {r \in d : r.chemin # g}
        \cup {[chemin |-> g, contenu |-> contenu, mtime |-> mtime,
               meta |-> meta]}

\* The files of the source directory lst with manifest i: the manifest,
\* the listed files and the sidecar file of those that have one
ArbreSource(lst, i) ==
    {[nom |-> sInformationYaml, contenu |-> <<"yaml", i>>, mtime |-> 0]}
        \cup {[nom |-> Nom(lst[k]), contenu |-> <<"orig", lst[k]>>,
                mtime |-> Mtime(lst[k])] : k \in 1..Len(lst)}
        \cup {[nom |-> Nom(lst[k]) \o sXmp, contenu |-> <<"xmp", lst[k]>>,
                mtime |-> Mtime(lst[k])] :
                   k \in {j \in 1..Len(lst) : Catalogue[lst[j]].sidecar}}

\* The file moved instead of copied: it leaves the source directory
ApresMove(o, nom) == {r \in o : r.nom # nom}

\* The source directory after shutil.copy2 of its file nom to another
\* place: the file is read and stays as it is
ApresCopy2(o, nom) == o

InitCopier ==
    /\ cmd = "copier"
    /\ source \in SeqSansRepetition(Fichiers, MaxFichiers)
    /\ infos \in [export_oca : {"absent", "true", "false"},
                  releve : UNION {[1..k -> DatesReleve] :
                                      k \in 1..MaxReleves}]
    /\ full \in BOOLEAN
    /\ dry_run \in BOOLEAN
    /\ reps \in {{}} \cup
           {{<<RacineOCA>>} \cup {<<RacineOCA, date_oca(infos.releve[i])>> :
                                      i \in I} :
            I \in SUBSET (1..Len(infos.releve))}
    /\ dest = {}
    /\ tmp = <<"vide", 0>>
    /\ journal = <<>>
    /\ pc = "debut"
    /\ idx = 1
    /\ isp = 1
    /\ dernier = s00000000
    /\ releves = <<>>
    /\ rep_racine = <<>>
    /\ seq = 0
    /\ tags = <<>>
    /\ sp = <<>>
    /\ nb = <<>>
    /\ det = <<>>
    /\ racine = <<>>
    /\ fi = "aucun"
    /\ remplace = FALSE
    /\ sortie = "absent"
    /\ dc = <<>>
    /\ latitude = 0
    /\ longitude = 0
    /\ altitude = 0
    /\ observations = <<>>
    /\ arg = <<>>
    /\ res = <<>>
    /\ passe = <<>>
    /\ origine = ArbreSource(source, infos)


(***************************************************************************)
(* copier: information.yaml is read and the destination tree is built      *)
(***************************************************************************)
\* The key taken for granted
ExportOcaSuppose(i) == TRUE

\* "export_oca" in infos
ExportOcaPresent(i) == i.export_oca # "absent"

LireManifeste ==
    /\ cmd = "copier"
    /\ pc = "debut"
    /\ IF ~ExportOcaPresent(infos)
       THEN \* KeyError
            /\ pc' = "fatal"
            /\ journal' = Append(journal, Evt("fatal", 0, <<>>, <<>>))
            /\ UNCHANGED <<reps, dest, dernier, releves, rep_racine, seq,
                           origine>>
       ELSE IF infos.export_oca = "true"
       THEN LET rac == RacineOCA
                dts == [i \in 1..Len(infos.releve) |->
                            date_oca(infos.releve[i])]
                r1 == reps \cup {<<rac>>}
                b == BoucleReleves(Sorted(dts), rac, r1, s00000000)
            IN  /\ rep_racine' = rac
                /\ releves' = dts
                /\ reps' = b.reps
                /\ dernier' = b.dernier
                /\ dest' = Ecrire(dest, <<rac, sInformationYaml>>,
                                  <<"yaml", 0>>, 0, 0)
                /\ journal' =
                       journal
                         \o (IF <<rac>> \in reps THEN <<>>
                             ELSE <<Evt("mkdir", 0, <<>>, <<rac>>)>>)
                         \o <<Evt("copy2", 0, <<"yaml">>,
                                  <<rac, sInformationYaml>>)>>
                         \o [k \in 1..Len(b.crees) |->
                                Evt("mkdir", 0, <<>>, <<rac, b.crees[k]>>)]
                /\ origine' = ApresCopy2(origine, sInformationYaml)
                /\ seq' = 1
                /\ pc' = "parcours"
       ELSE /\ journal' = Append(journal, Evt("pas_de_copie", 0, <<>>, <<>>))
            /\ seq' = 1
            /\ pc' = "parcours"
            /\ UNCHANGED <<reps, dest, dernier, releves, rep_racine, origine>>
    /\ UNCHANGED <<entrees, export, appel, passe, tmp, idx, isp, tags, sp, nb, det, racine, fi>>

(***************************************************************************)
(* copier: the loop over the files of the source directory                 *)
(***************************************************************************)
\* A file that is no media file, or that the incremental copy leaves out
Sauter ==
    /\ cmd = "copier"
    /\ pc = "parcours"
    /\ idx <= Len(source)
    /\ LET f == source[idx]
       IN  /\ \/ ~MEDIA_PAT(Catalogue[f].suffixe)
              \/ Classement[f].indexable /\ ~Eligible(f, full, dernier)
           /\ tags' = IF MEDIA_PAT(Catalogue[f].suffixe) THEN <<>> ELSE tags
    /\ idx' = idx + 1
    /\ UNCHANGED <<entrees, export, appel, passe, origine, reps, dest, tmp, journal, pc, isp, dernier,
                   releves, rep_racine, seq, sp, nb, det, racine, fi>>

\* A media file whose name has no underscore: f.name.split("_")[1] raises
\* IndexError, which nothing catches, and the command ends there
Echouer ==
    /\ cmd = "copier"
    /\ pc = "parcours"
    /\ idx <= Len(source)
    /\ MEDIA_PAT(Catalogue[source[idx]].suffixe)
    /\ ~Classement[source[idx]].indexable
    /\ pc' = "exception"
    /\ journal' = Append(journal, Evt("exception", source[idx], <<>>, <<>>))
    /\ UNCHANGED <<entrees, export, appel, passe, origine, reps, dest, tmp, idx, isp, dernier,
                   releves, rep_racine, seq, tags, sp, nb, det, racine, fi>>

\* The tags of the file are read, its species, quantities and details are
\* extracted and it takes the next number
Classer ==
    /\ cmd = "copier"
    /\ pc = "parcours"
    /\ idx <= Len(source)
    /\ LET f == source[idx]
           lus == Classement[f].tags
           especes == Classement[f].sp
           sph == Cardinality({especes[k] : k \in 1..Len(especes)}
                                  \cap NON_FAUNE)
       IN  /\ MEDIA_PAT(Catalogue[f].suffixe)
           /\ Classement[f].indexable
           /\ Eligible(f, full, dernier)
           /\ tags' = lus
           /\ sp' = especes
           /\ nb' = Classement[f].nb
           /\ det' = Classement[f].det
           /\ racine' = Racine(seq)
           /\ seq' = seq + 1
           /\ tmp' = <<"vide", 0>>
           /\ isp' = 1
           /\ fi' = SourceCopie(sph)
           /\ pc' = IF sph > 0 /\ ~dry_run THEN "deface" ELSE "copie"
           /\ journal' =
                  journal \o <<Evt("get_tags", f, <<>>, <<>>)>>
                      \o (IF sph > 0
                          THEN <<Evt("log_deface", f, <<>>, <<>>)>>
                          ELSE <<>>)
    /\ UNCHANGED <<entrees, export, appel, passe, origine, reps, dest, idx, dernier, releves, rep_racine>>

\* The anonymizer is run on the file, towards the temporary file; its exit
\* status is not read
Anonymiser ==
    /\ cmd = "copier"
    /\ pc = "deface"
    /\ \E ok \in BOOLEAN :
           /\ tmp' = IF ok THEN <<"anon", source[idx]>> ELSE <<"vide", 0>>
           /\ journal' = Append(journal,
                                Evt("deface", source[idx],
                                    <<IF ok THEN "ok" ELSE "echec">>, <<>>))
    /\ pc' = "copie"
    /\ UNCHANGED <<entrees, export, appel, passe, origine, reps, dest, idx, isp, dernier, releves,
                   rep_racine, seq, tags, sp, nb, det, racine, fi>>

\* One species entry of the file: its destination is computed and logged,
\* then the file is copied there with the date and the tags of the original
CopierEspece ==
    /\ cmd = "copier"
    /\ pc = "copie"
    /\ isp <= Len(sp)
    /\ LET f == source[idx]
           nom == NomDest(racine, sp[isp], nb, det, Catalogue[f].suffixe)
           ssrep == SousRep(DatePrise(f), releves, <<>>)
           g == Chemin(<<rep_racine, ssrep, nom>>)
           gx == [g EXCEPT ![Len(g)] = @ \o sXmp]
           contenu == IF fi = "tmp" THEN tmp ELSE <<"orig", f>>
           d1 == Ecrire(dest, g, contenu, Mtime(f), f)
           d2 == IF Catalogue[f].sidecar
                 THEN Ecrire(d1, gx, <<"xmp", f>>, Mtime(f), f)
                 ELSE d1
       IN  /\ dest' = IF dry_run THEN dest ELSE d2
           /\ origine' = IF dry_run \/ fi = "tmp" THEN origine
                         ELSE ApresCopy2(origine, Nom(f))
           /\ journal' =
                  journal \o <<Evt("log_dest", f, <<fi>>, <<ssrep, nom>>)>>
                      \o (IF dry_run THEN <<>>
                          ELSE <<Evt("copy2", f, <<fi>>, g),
                                 Evt("utime", f, <<"orig">>, g)>>
                                 \o (IF Catalogue[f].sidecar
                                     THEN <<Evt("tagsfromfile", f,
                                                <<"xmp">>, gx),
                                            Evt("utime", f, <<"orig">>, gx)>>
                                     ELSE <<>>)
                                 \o <<Evt("tagsfromfile", f, <<"media">>, g),
                                      Evt("utime", f, <<"orig">>, g)>>)
    /\ isp' = isp + 1
    /\ UNCHANGED <<entrees, export, appel, passe, reps, tmp, pc, idx, dernier, releves,
                   rep_racine, seq, tags, sp, nb, det, racine, fi>>

\* All the species entries of the file are done: the temporary file is
\* deleted and the loop goes to the next file
FinFichier ==
    /\ cmd = "copier"
    /\ pc = "copie"
    /\ isp > Len(sp)
    /\ idx' = idx + 1
    /\ pc' = "parcours"
    /\ tmp' = <<"vide", 0>>
    /\ UNCHANGED <<entrees, export, appel, passe, origine, reps, dest, journal, isp, dernier, releves,
                   rep_racine, seq, tags, sp, nb, det, racine, fi>>

\* No file is left
Terminer ==
    /\ cmd = "copier"
    /\ pc = "parcours"
    /\ idx > Len(source)
    /\ pc' = "fin"
    /\ UNCHANGED <<entrees, export, appel, passe, origine, reps, dest, tmp, journal, idx, isp, dernier,
                   releves, rep_racine, seq, tags, sp, nb, det, racine, fi>>

(***************************************************************************)
(* exporter.py                                                             *)
(***************************************************************************)
\* The first tag that starts with the path of the department gives the
\* commune
RECURSIVE _commune(_)
_commune(ts) ==
    IF Len(ts) = 0 THEN sInconnu
    ELSE IF COMMUNE_PAT(ts[1])
         THEN SubSeq(ts[1], Len(sPrefixeCommune) + 1, Len(ts[1]))
         ELSE _commune(Tail(ts))

\* The value of a local variable that was never assigned, when it is read
UnboundLocalError == <<"UnboundLocalError">>

RECURSIVE _communeMain(_, _)
\* _commune of __main__.py, which the command exporter of __main__.py
\* calls: com has no default and the loop has no break, so every tag that
\* matches assigns com, and com is returned as the loop left it
_communeMain(ts, com) ==
    IF Len(ts) = 0 THEN com
    ELSE _communeMain(Tail(ts),
                      IF COMMUNE_PAT(ts[1])
                      THEN SubSeq(ts[1], Len(sPrefixeCommune) + 1,
                                  Len(ts[1]))
                      ELSE com)

\* The coordinates left as they are
degraderSansEffet(x, y, grain) == <<x, y>>

\* The quotient cut towards zero, int(v / c), in place of its floor
degraderTronque(x, y, grain) ==
    LET c == CASE grain = "M1" -> 1000
               [] grain = "M2" -> 2000
               [] grain = "M5" -> 5000
               [] grain = "M10" -> 10000
               [] OTHER -> 0
        q(v) == IF v < 0 THEN 0 - ((0 - v) \div c) ELSE v \div c
    IN  IF c = 0 THEN <<x, y>>
        ELSE <<q(x) * c + (c \div 2), q(y) * c + (c \div 2)>>

\* Every grain taken for M1
degraderDefaut(x, y, grain) ==
    <<(x \div 1000) * 1000 + 500, (y \div 1000) * 1000 + 500>>

\* Coordinates moved to the centre of their cell of 1, 2, 5 or 10 km
degrader(x, y, grain) ==
    CASE grain = "M1" ->
             <<(x \div 1000) * 1000 + 500, (y \div 1000) * 1000 + 500>>
      [] grain = "M2" ->
             <<(x \div 2000) * 2000 + 1000, (y \div 2000) * 2000 + 1000>>
      [] grain = "M5" ->
             <<(x \div 5000) * 5000 + 2500, (y \div 5000) * 5000 + 2500>>
      [] grain = "M10" ->
             <<(x \div 10000) * 10000 + 5000, (y \div 10000) * 10000 + 5000>>
      [] OTHER -> <<x, y>>

\* The else branch of _degrader: "Pas de degradation pour {grain}" is logged
GrainInconnu(grain) == grain \notin {"M1", "M2", "M5", "M10"}

\* The sensitive species and the grain of each.  The module sp_sensible is
\* not part of the sources at hand: the table is written from the
\* description of the sensitivity map (species name to grain code).
sp_sensibles ==
    [s \in {sLoup, sCanides} |->
        [Grain |-> IF s = sLoup THEN "M1" ELSE "M5"]]

\* to_l93.transform(x, y): the projection to Lambert 93, here an affine map
\* of the thousandths of a degree to metres.  The projection library is
\* outside the sources; the export only applies it.
to_l93(x, y) == <<(x - 3000) * 80, (y - 46500) * 111>>

\* The value of a date field of a file, as the metadata tool returns it
ValeurDate(champ, f) == <<champ, f>>

\* dc = "0000:00:00 00:00:00"
sDateDefaut == <<"0000:00:00 00:00:00", 0>>

\* dc after the date fields of file f were looked up, dc being avant before
DateDe(f, avant) ==
    LET d == Catalogue[f].champs
    IN  IF "EXIF:DateTimeOriginal" \in d
        THEN ValeurDate("EXIF:DateTimeOriginal", f)
        ELSE IF "XMP:DateTimeOriginal" \in d
        THEN ValeurDate("XMP:DateTimeOriginal", f)
        ELSE IF "XMP:CreateDate" \in d
        THEN ValeurDate("XMP:CreateDate", f)
        ELSE IF "QuickTime:MediaCreateDate" \in d
        THEN ValeurDate("QuickTime:MediaCreateDate", f)
        ELSE avant

\* tags after XMP:HierarchicalSubject of file f was looked up
TagsDe(f, avant) ==
    IF HierarchicalSubject(f) # <<>> THEN HierarchicalSubject(f) ELSE avant

\* <<latitude, longitude, altitude>> after the GPS tags of f were looked up
PositionDe(f, avant) ==
    IF Catalogue[f].gps # <<>> THEN Catalogue[f].gps ELSE avant

\* Every species gives a row
ExportableToujours(s) == TRUE

\* Whether a species gives a row of the export: human activities do not
Exportable(s) == s \notin NON_FAUNE

\* The row of the export for the species entry s.  The fields fichier and
\* point are bookkeeping of the model: the file the row was emitted for and
\* the projected point before any degradation.
Ligne(sensibles, f, s, ts, date, lat, lon, alt) ==
    LET coord == to_l93(lat, lon)
        sortie_coord ==
            IF s \in DOMAIN sensibles
            THEN degrader(coord[1], coord[2], sensibles[s].Grain)
            ELSE coord
    IN  [Commune |-> _commune(ts),
         Date |-> date,
         Espece |-> s,
         Quantite |-> Quantite(s, qte(ts), 1),
         Details |-> Detail(s, details(ts), <<>>),
         X_L93 |-> sortie_coord[1],
         Y_L93 |-> sortie_coord[2],
         Altitude |-> alt,
         fichier |-> f,
         point |-> coord]

\* The row of one species entry with the table of sp_sensible
Observation(f, s, ts, date, lat, lon, alt) ==
    Ligne(sp_sensibles, f, s, ts, date, lat, lon, alt)

\* The rows appended for one file: one per species entry that is exported
ObservationsDe(f, ts, date, lat, lon, alt) ==
    LET gardees == SelectSeq(noms(ts), Exportable)
    IN  [k \in 1..Len(gardees) |->
            Observation(f, gardees[k], ts, date, lat, lon, alt)]

InitExporter ==
    /\ cmd = "exporter"
    /\ source \in SeqSansRepetition(Fichiers, MaxExport)
    /\ remplace \in BOOLEAN
    /\ sortie \in {"absent", "ancien"}
    /\ infos = [export_oca |-> "absent", releve |-> <<>>]
    /\ full = FALSE
    /\ dry_run = FALSE
    /\ reps = {}
    /\ dest = {}
    /\ tmp = <<"vide", 0>>
    /\ journal = <<>>
    /\ pc = "debut"
    /\ idx = 1
    /\ isp = 1
    /\ dernier = s00000000
    /\ releves = <<>>
    /\ rep_racine = <<>>
    /\ seq = 0
    /\ tags = <<>>
    /\ sp = <<>>
    /\ nb = <<>>
    /\ det = <<>>
    /\ racine = <<>>
    /\ fi = "aucun"
    /\ dc = <<>>
    /\ latitude = 0
    /\ longitude = 0
    /\ altitude = 0
    /\ observations = <<>>
    /\ arg = <<>>
    /\ res = <<>>
    /\ passe = <<>>
    /\ origine = ArbreSource(source, infos)

\* The variables of the copy alone
copie == <<full, dry_run, infos, reps, dest, tmp, isp, dernier, releves,
           rep_racine, seq, sp, nb, det, racine, fi>>

\* exporter: the export file must not be there unless it may be replaced;
\* the date, the tags and the position start with their defaults
DebutExport ==
    /\ cmd = "exporter"
    /\ pc = "debut"
    /\ IF sortie = "ancien" /\ ~remplace
       THEN \* FileExistsError
            /\ pc' = "fatal"
            /\ journal' = Append(journal, Evt("fatal", 0, <<>>, <<>>))
            /\ UNCHANGED <<dc, tags, latitude, longitude, altitude>>
       ELSE /\ pc' = "parcours"
            /\ dc' = sDateDefaut
            /\ tags' = <<>>
            /\ latitude' = 0
            /\ longitude' = 0
            /\ altitude' = 0
            /\ UNCHANGED journal
    /\ UNCHANGED <<cmd, source, remplace, copie, appel, passe, origine, sortie, idx, observations>>

\* exporter: one file of the walk.  The date, the tags and the position are
\* assigned when the file carries them and keep their value otherwise; then
\* one row is appended per exported species entry
ExporterFichier ==
    /\ cmd = "exporter"
    /\ pc = "parcours"
    /\ idx <= Len(source)
    /\ LET f == source[idx]
           pos == PositionDe(f, <<latitude, longitude, altitude>>)
       IN  IF MEDIA_PAT(Catalogue[f].suffixe)
           THEN /\ dc' = DateDe(f, dc)
                /\ tags' = TagsDe(f, tags)
                /\ latitude' = pos[1]
                /\ longitude' = pos[2]
                /\ altitude' = pos[3]
                /\ observations' =
                       observations
                           \o ObservationsDe(f, tags', dc', latitude',
                                             longitude', altitude')
                /\ journal' =
                       journal
                           \o (IF DateDe(f, <<>>) = <<>>
                               THEN <<Evt("erreur_date", f, <<>>, <<>>)>>
                               ELSE <<>>)
                           \o (IF Catalogue[f].gps = <<>>
                               THEN <<Evt("erreur_gps", f, <<>>, <<>>)>>
                               ELSE <<>>)
                           \o (IF noms(tags') = <<>>
                               THEN <<Evt("erreur_espece", f, <<>>, <<>>)>>
                               ELSE <<>>)
           ELSE UNCHANGED <<dc, tags, latitude, longitude, altitude,
                            observations, journal>>
    /\ idx' = idx + 1
    /\ UNCHANGED <<cmd, source, remplace, copie, appel, passe, origine, sortie, pc>>

\* exporter: the rows are written to the export file
EcrireExport ==
    /\ cmd = "exporter"
    /\ pc = "parcours"
    /\ idx > Len(source)
    /\ sortie' = "export"
    /\ pc' = "fin"
    /\ UNCHANGED <<cmd, source, remplace, copie, appel, passe, origine, idx, journal, dc, tags,
                   latitude, longitude, altitude, observations>>

(***************************************************************************)
(* The commands.                                                           *)
(***************************************************************************)
NextCopier ==
    \/ LireManifeste
    \/ Sauter
    \/ Echouer
    \/ Classer
    \/ Anonymiser
    \/ CopierEspece
    \/ FinFichier
    \/ Terminer

NextExporter ==
    \/ DebutExport
    \/ ExporterFichier
    \/ EcrireExport

\* A run of copier
SpecCopier == InitCopier /\ [][NextCopier]_vars

(***************************************************************************)
(* Runs of copier one after the other on the same source and the same      *)
(* destination.                                                            *)
(***************************************************************************)
\* The number of runs in a row
MaxRelances == 2

\* The number of files of the source directory in runs in a row
MaxFichiersSuite == 1

InitSuite ==
    /\ InitCopier
    /\ Len(source) <= MaxFichiersSuite

\* The run is over, or it is stopped between two files, and copier is run
\* again: the destination tree stays as the run left it, the manifest may
\* list one more survey date, the flags are those of the new command line
Relancer ==
    /\ cmd = "copier"
    /\ pc \in {"parcours", "fin", "fatal", "exception"}
    /\ Len(passe) + 1 < MaxRelances
    /\ passe' = Append(passe, [dernier |-> dernier, releve |-> infos.releve,
                               full |-> full, dry_run |-> dry_run,
                               pc |-> pc, idx |-> idx])
    /\ \E r \in {infos.releve}
                 \cup {Append(infos.releve, d) :
                           d \in {e \in DatesReleve :
                                      Len(infos.releve) < MaxReleves}} :
           /\ infos' = [infos EXCEPT !.releve = r]
           /\ origine' = ArbreSource(source, infos')
    /\ full' \in BOOLEAN
    /\ dry_run' \in BOOLEAN
    /\ tmp' = <<"vide", 0>>
    /\ journal' = <<>>
    /\ pc' = "debut"
    /\ idx' = 1
    /\ isp' = 1
    /\ dernier' = s00000000
    /\ releves' = <<>>
    /\ rep_racine' = <<>>
    /\ seq' = 0
    /\ tags' = <<>>
    /\ sp' = <<>>
    /\ nb' = <<>>
    /\ det' = <<>>
    /\ racine' = <<>>
    /\ fi' = "aucun"
    /\ UNCHANGED <<cmd, source, remplace, export, appel, reps, dest>>

NextSuite == NextCopier \/ Relancer

SpecSuite == InitSuite /\ [][NextSuite]_vars

\* A run of exporter
SpecExporter == InitExporter /\ [][NextExporter]_vars

Init == InitCopier \/ InitExporter

Next == NextCopier \/ NextExporter

\* A run of either command
Spec == Init /\ [][Next]_vars

(***************************************************************************)
(* The functions of utilitaires, copier and exporter called on their own:  *)
(* the arguments are drawn from the sets below, the call is one step.      *)
(***************************************************************************)
\* The variables of the commands, which no call touches
commandes == <<source, infos, full, dry_run, remplace, sortie, reps, dest,
               tmp, journal, idx, isp, dernier, releves, rep_racine, seq,
               tags, sp, nb, det, racine, fi, dc, latitude, longitude,
               altitude, observations, passe, origine>>

Repos ==
    /\ source = <<>>
    /\ infos = [export_oca |-> "absent", releve |-> <<>>]
    /\ full = FALSE
    /\ dry_run = FALSE
    /\ remplace = FALSE
    /\ sortie = "absent"
    /\ reps = {}
    /\ dest = {}
    /\ tmp = <<"vide", 0>>
    /\ journal = <<>>
    /\ idx = 1
    /\ isp = 1
    /\ dernier = s00000000
    /\ releves = <<>>
    /\ rep_racine = <<>>
    /\ seq = 0
    /\ tags = <<>>
    /\ sp = <<>>
    /\ nb = <<>>
    /\ det = <<>>
    /\ racine = <<>>
    /\ fi = "aucun"
    /\ dc = <<>>
    /\ latitude = 0
    /\ longitude = 0
    /\ altitude = 0
    /\ observations = <<>>
    /\ passe = <<>>
    /\ origine = {}

\* The longest list of tags given to a function
MaxEtiquettes == 3

\* The lists of at most n elements of S
Listes(S, n) == UNION {[1..k -> S] : k \in 0..n}

sRenard == <<"R", "e", "n", "a", "r", "d">>

sChevreuil == <<"C", "h", "e", "v", "r", "e", "u", "i", "l">>

tChevreuil3 == <<"Q", "u", "a", "n", "t", "i", "t", "e_aigu", "|", "C", "h",
    "e", "v", "r", "e", "u", "i", "l", "_", "3">>

tRenard0 == <<"Q", "u", "a", "n", "t", "i", "t", "e_aigu", "|", "R", "e",
    "n", "a", "r", "d", "_", "0">>

tQuantiteSansNombre == <<"Q", "u", "a", "n", "t", "i", "t", "e_aigu", "|",
    "R", "e", "n", "a", "r", "d">>

tLoupFemelle == <<"D", "e_aigu", "t", "a", "i", "l", "s", "|", "L", "o",
    "u", "p", "_", "f", "e", "m", "e", "l", "l", "e">>

\* Quantity and detail tags: several species, a quantity of zero, a
\* quantity tag without number, two details of one species
EtiquettesQuantite ==
    {tRenard2, tRenard0, tLoup3, tChevreuil3, tQuantiteSansNombre,
     tLoupMale, tLoupFemelle}

EspecesQuantite == {sRenard, sLoup, sChevreuil, sInconnu}

InitResoudre ==
    /\ cmd = "resoudre"
    /\ pc = "debut"
    /\ arg \in [s : EspecesQuantite,
                tags : Listes(EtiquettesQuantite, MaxEtiquettes)]
    /\ res = <<>>
    /\ Repos

\* The quantity and the detail of species s for the tags of a file, as the
\* copy resolves them for the destination name and as the export resolves
\* them for the row
Resoudre ==
    /\ cmd = "resoudre"
    /\ pc = "debut"
    /\ res' = [nb |-> qte(arg.tags),
               det |-> details(arg.tags),
               qt |-> Quantite(arg.s, qte(arg.tags), 1),
               de |-> Detail(arg.s, details(arg.tags), <<>>),
               dest |-> NomDest(Racine(1), arg.s, qte(arg.tags),
                                details(arg.tags), sJpg),
               ligne |-> Observation(0, arg.s, arg.tags, sDateDefaut,
                                     0, 0, 0)]
    /\ pc' = "fin"
    /\ UNCHANGED <<cmd, arg, commandes>>

SpecResoudre == InitResoudre /\ [][Resoudre]_vars

tChevreuil == <<"N", "a", "t", "u", "r", "e", "|", "C", "h", "e", "v", "r",
    "e", "u", "i", "l", " ", "{", "i", "d", "1", "2", "3", "}">>

tPicVert == <<"N", "a", "t", "u", "r", "e", "|", "O", "i", "s", "e", "a",
    "u", "x", "|", "P", "i", "c", "-", "v", "e", "r", "t", " ", "{", "P", "i",
    "c", "u", "s", " ", "v", "i", "r", "i", "d", "i", "s", "}">>

tNatureSansNom == <<"N", "a", "t", "u", "r", "e", "|", "O", "i", "s", "e",
    "a", "u", "x">>

\* Tags of the Nature category (a plain name, a name after two path
\* segments, a hyphenated name, no name at all) and tags of other categories
EtiquettesNature ==
    {tRenard, tRandonneur, tLoupBis, tChevreuil, tPicVert, tNatureSansNom,
     tRenard2, tAutrans}

InitNoms ==
    /\ cmd = "noms"
    /\ pc = "debut"
    /\ arg \in Listes(EtiquettesNature, MaxEtiquettes)
    /\ res = <<>>
    /\ Repos

\* noms(tags)
Nommer ==
    /\ cmd = "noms"
    /\ pc = "debut"
    /\ res' = noms(arg)
    /\ pc' = "fin"
    /\ UNCHANGED <<cmd, arg, commandes>>

SpecNoms == InitNoms /\ [][Nommer]_vars

\* The coordinates given to the degradation: each multiple of Pas up to
\* MaxPas of them on both sides of zero, the value before and the value
\* after, and those of the example
Pas == 500

MaxPas == 21

Abscisses ==
    {k * Pas + d : k \in (0 - MaxPas)..MaxPas, d \in {0 - 1, 0, 1}}
        \cup {12345}

Ordonnees == {0 - 10001, 0 - 500, 0 - 1, 0, 999, 67890}

\* The four grains and a code that is none of them
Grains == {"M1", "M2", "M5", "M10", "M3"}

InitDegrader ==
    /\ cmd = "degrader"
    /\ pc = "debut"
    /\ arg \in [x : Abscisses, y : Ordonnees, grain : Grains]
    /\ res = <<>>
    /\ Repos

\* _dégrader(x, y, grain), the error it logs, and the row of a species
\* whose grain in the table is this one, seen at latitude x and longitude y
\* (thousandths of a degree)
Degrader ==
    /\ cmd = "degrader"
    /\ pc = "debut"
    /\ res' = [coord |-> degrader(arg.x, arg.y, arg.grain),
               erreur |-> GrainInconnu(arg.grain),
               lignes |-> <<Ligne([e \in {sLoup} |-> [Grain |-> arg.grain]],
                                  0, sLoup, <<tLoup>>, sDateDefaut,
                                  arg.x, arg.y, 0)>>]
    /\ pc' = "fin"
    /\ UNCHANGED <<cmd, arg, commandes>>

SpecDegrader == InitDegrader /\ [][Degrader]_vars

tMeaudre == <<"C", "o", "n", "t", "i", "n", "e", "n", "t", "s", " ", "e",
    "t", " ", "p", "a", "y", "s", "|", "E", "u", "r", "o", "p", "e", "|", "F",
    "r", "a", "n", "c", "e", " ", "{", "F", "r", "a", "n", "c", "e", "}", " ",
    "{", "F", "R", "}", " ", "{", "F", "R", "A", "}", "|", "A", "u", "v", "e",
    "r", "g", "n", "e", "-", "R", "h", "o_circ", "n", "e", "-", "A", "l", "p",
    "e", "s", "|", "I", "s", "e_grave", "r", "e", "|", "M", "e_aigu", "a", "u",
    "d", "r", "e">>

tChambery == <<"C", "o", "n", "t", "i", "n", "e", "n", "t", "s", " ", "e",
    "t", " ", "p", "a", "y", "s", "|", "E", "u", "r", "o", "p", "e", "|", "F",
    "r", "a", "n", "c", "e", " ", "{", "F", "r", "a", "n", "c", "e", "}", " ",
    "{", "F", "R", "}", " ", "{", "F", "R", "A", "}", "|", "A", "u", "v", "e",
    "r", "g", "n", "e", "-", "R", "h", "o_circ", "n", "e", "-", "A", "l", "p",
    "e", "s", "|", "S", "a", "v", "o", "i", "e", "|", "C", "h", "a", "m", "b",
    "e_aigu", "r", "y">>

\* Tags of two communes of the department, of a commune of another
\* department, and tags that are no place
EtiquettesCommune == {tAutrans, tMeaudre, tChambery, tRenard, tRenard2}

InitCommune ==
    /\ cmd = "commune"
    /\ pc = "debut"
    /\ arg \in Listes(EtiquettesCommune, MaxEtiquettes)
    /\ res = <<>>
    /\ Repos

\* _commune(tags), as exporter.py defines it and as __main__.py defines it
ResoudreCommune ==
    /\ cmd = "commune"
    /\ pc = "debut"
    /\ res' = [exporter |-> _commune(arg),
               main |-> _communeMain(arg, UnboundLocalError)]
    /\ pc' = "fin"
    /\ UNCHANGED <<cmd, arg, commandes>>

SpecCommune == InitCommune /\ [][ResoudreCommune]_vars

sLievre == <<"L", "i", "e_grave", "v", "r", "e">>

\* The numbers a file may get in a run: the first, and those on both sides
\* of the last number of four digits
Numeros == {1, 10, 9999, 10000}

EspecesNommees == {sRenard, sLoup, sChevreuil, sCanides, sLievre, sInconnu}

\* The longest list of tags of a file that is named
MaxEtiquettesNom == 2

InitNomOCA ==
    /\ cmd = "nom_oca"
    /\ pc = "debut"
    /\ arg \in [seq : Numeros,
                s : EspecesNommees,
                tags : Listes(EtiquettesQuantite, MaxEtiquettesNom),
                suffixe : {sJpg, sMp4}]
    /\ res = <<>>
    /\ Repos

\* The name copier gives to the copy of a file for one species entry, and
\* what analyser reads in that name
NommerOCA ==
    /\ cmd = "nom_oca"
    /\ pc = "debut"
    /\ LET nom == NomDest(Racine(arg.seq), arg.s, qte(arg.tags),
                          details(arg.tags), arg.suffixe)
       IN  res' = [dest |-> nom,
                   qt |-> Quantite(arg.s, qte(arg.tags), 1),
                   spq |-> OCA_PAT(nom)]
    /\ pc' = "fin"
    /\ UNCHANGED <<cmd, arg, commandes>>

SpecNomOCA == InitNomOCA /\ [][NommerOCA]_vars


(***************************************************************************)
(* Properties.                                                             *)
(***************************************************************************)
\* The positions of the journal that hold an event op about file f
Evenements(op, f) ==
    {i \in 1..Len(journal) : journal[i].op = op /\ journal[i].f = f}

\* The files one of whose tagged species is a human activity
FichiersHumains ==
    {f \in Fichiers :
        \E k \in 1..Len(Classement[f].sp) : Classement[f].sp[k] \in NON_FAUNE}

\* One of the species tagged on the file is a human activity
Humain(f) == f \in FichiersHumains

\* The files tagged with two species, one a human activity and one not
FichiersMixtes ==
    {f \in Fichiers :
        /\ Len(Classement[f].sp) = 2
        /\ Cardinality({k \in 1..2 : Classement[f].sp[k] \in NON_FAUNE}) = 1}

\* The rows of the export that were emitted for file f
Lignes(f) == {k \in 1..Len(observations) : observations[k].fichier = f}

\* The greatest of a set of dates written YYYYMMDD
MaxDate(S) == CHOOSE d \in S : \A e \in S : InfEgal(e, d)

\* The side of the cell of a grain, in metres
Cote(grain) ==
    CASE grain = "M1" -> 1000
      [] grain = "M2" -> 2000
      [] grain = "M5" -> 5000
      [] grain = "M10" -> 10000

\* v is the centre of the cell of side c that holds p
CentreDe(v, p, c) ==
    /\ (v - (c \div 2)) % c = 0
    /\ v - (c \div 2) <= p
    /\ p < v + (c \div 2)

\* p and q are in the same cell of side c
MemeCellule(p, q, c) ==
    /\ p[1] - (p[1] % c) = q[1] - (q[1] % c)
    /\ p[2] - (p[2] % c) = q[2] - (q[2] % c)

\* The row is about a sensitive species with one of the four grains
Sensible(o) ==
    /\ o.Espece \in DOMAIN sp_sensibles
    /\ sp_sensibles[o.Espece].Grain \in {"M1", "M2", "M5", "M10"}

\* The media files of the destination tree that are copies of file f
Copies(f) == {r \in dest : r.meta = f /\ r.contenu[1] # "xmp"}

\* C1: in a copy that is no dry run, a file one of whose species is a human
\* activity is anonymized once, before any copy of it; every copy of it is
\* made from the temporary file and never from the file itself, and takes
\* its modification time and its metadata from the file itself.
C1_AnonymiseAvantCopie ==
    (cmd = "copier" /\ ~dry_run) =>
        /\ \A i \in 1..Len(journal) :
              LET e == journal[i]
              IN  (e.op = "copy2" /\ e.f # 0 /\ Humain(e.f)) =>
                      /\ e.a = <<"tmp">>
                      /\ Cardinality(Evenements("deface", e.f)) = 1
                      /\ \A j \in Evenements("deface", e.f) : j < i
                      /\ journal[i + 1] = Evt("utime", e.f, <<"orig">>, e.b)
                      /\ \E j \in (i + 1)..Len(journal) :
                             journal[j] =
                                 Evt("tagsfromfile", e.f, <<"media">>, e.b)
        /\ \A f \in Fichiers :
              Humain(f) =>
                  \A r \in Copies(f) :
                      /\ r.contenu # <<"orig", f>>
                      /\ r.contenu \in {<<"anon", f>>, <<"vide", 0>>}
                      /\ (\E i \in Evenements("deface", f) :
                              journal[i].a = <<"ok">>)
                             => r.contenu = <<"anon", f>>
                      /\ r.mtime = Mtime(f)

\* C1, its case: the run is over, the video with a hiker and a wolf was
\* anonymized and its two copies hold the anonymized content
C1_Temoin ==
    /\ cmd = "copier"
    /\ ~dry_run
    /\ pc = "fin"
    /\ Humain(3)
    /\ Cardinality({r \in Copies(3) :
                       r.contenu = <<"anon", 3>> /\ r.mtime = Mtime(3)}) = 2

\* C2, as stated: when the anonymizer fails on a file the failure is
\* logged, the run goes on, and every copy of the file is made from the
\* file itself.
C2_EchecRepliOriginal ==
    \A i \in 1..Len(journal) :
        (journal[i].op = "deface" /\ journal[i].a = <<"echec">>) =>
            /\ pc # "fatal"
            /\ \A j \in (i + 1)..Len(journal) :
                  (journal[j].op = "copy2" /\ journal[j].f = journal[i].f) =>
                      /\ journal[j].a = <<"orig">>
                      /\ \E k \in (i + 1)..(j - 1) :
                             /\ journal[k].op = "log_echec_deface"
                             /\ journal[k].f = journal[i].f

\* C3: for every row about a sensitive species, the exported x and y are
\* the centre of the cell, of the side of the grain, that holds the
\* projected point; so two rows of one species whose projected points are in
\* one and the same cell carry identical coordinates.
C3_CentreDeCellule ==
    cmd = "exporter" =>
        /\ \A k \in 1..Len(observations) :
              LET o == observations[k]
              IN  Sensible(o) =>
                      LET c == Cote(sp_sensibles[o.Espece].Grain)
                      IN  /\ CentreDe(o.X_L93, o.point[1], c)
                          /\ CentreDe(o.Y_L93, o.point[2], c)
        /\ \A k1, k2 \in 1..Len(observations) :
              LET o1 == observations[k1]
                  o2 == observations[k2]
              IN  (/\ Sensible(o1)
                   /\ o1.Espece = o2.Espece
                   /\ MemeCellule(o1.point, o2.point,
                                  Cote(sp_sensibles[o1.Espece].Grain)))
                      => /\ o1.X_L93 = o2.X_L93
                         /\ o1.Y_L93 = o2.Y_L93

\* C3, its case: two wolves were exported from two files whose positions
\* differ inside one cell, with the same coordinates
C3_Temoin ==
    /\ cmd = "exporter"
    /\ pc = "fin"
    /\ \E k1 \in Lignes(3), k2 \in Lignes(5) :
           LET o1 == observations[k1]
               o2 == observations[k2]
           IN  /\ o1.Espece = sLoup
               /\ o2.Espece = sLoup
               /\ o1.point # o2.point
               /\ o1.point = to_l93(Catalogue[3].gps[1], Catalogue[3].gps[2])
               /\ o2.point = to_l93(Catalogue[5].gps[1], Catalogue[5].gps[2])
               /\ <<o1.X_L93, o1.Y_L93>> = <<o2.X_L93, o2.Y_L93>>
               /\ <<o1.X_L93, o1.Y_L93>> # o1.point

\* C4: a file tagged with a human activity and a wildlife species gives
\* exactly one row of the export and exactly two destination names of the
\* copy; no row of the export is about a human activity, and the copy
\* routes every species entry of a file, human activities included.
C4_HumainNonExporteMaisRoute ==
    /\ cmd = "exporter" =>
           /\ \A k \in 1..Len(observations) :
                  observations[k].Espece \notin NON_FAUNE
           /\ \A i \in 1..(idx - 1) :
                  source[i] \in FichiersMixtes =>
                      Cardinality(Lignes(source[i])) = 1
    /\ cmd = "copier" =>
           \A i \in 1..(idx - 1) :
               LET f == source[i]
                   routes == Evenements("log_dest", f)
               IN  Evenements("get_tags", f) # {} =>
                       /\ Cardinality(routes) = Len(Classement[f].sp)
                       /\ f \in FichiersMixtes =>
                              Cardinality({journal[j].b : j \in routes}) = 2

\* C4, its case: the export is over and the video with a hiker and a wolf
\* gave one row, about the wolf
C4_Temoin ==
    /\ cmd = "exporter"
    /\ pc = "fin"
    /\ 3 \in FichiersMixtes
    /\ \E i \in 1..Len(source) : source[i] = 3
    /\ Cardinality(Lignes(3)) = 1
    /\ \A k \in Lignes(3) : observations[k].Espece = sLoup

\* C5, as stated: whatever files came before it, a file of the export gives
\* at most as many rows as it has species entries of its own that are no
\* human activity; a file without classification tags gives none.
C5_AuPlusSesPropresEspeces ==
    cmd = "exporter" =>
        \A i \in 1..(idx - 1) :
            LET f == source[i]
            IN  Cardinality(Lignes(f))
                    <= Len(SelectSeq(Classement[f].sp, Exportable))

\* C6, as stated: the date, the position, the altitude and the species of a
\* row come from the metadata of the file the row is emitted for, or from
\* the defaults, never from a file exported before it.
C6_ObservationsFraiches ==
    \A k \in 1..Len(observations) :
        LET o == observations[k]
            f == o.fichier
            pos == PositionDe(f, <<0, 0, 0>>)
        IN  /\ o.Date = DateDe(f, sDateDefaut)
            /\ o.Altitude = pos[3]
            /\ o.point = to_l93(pos[1], pos[2])
            /\ \E j \in 1..Len(Classement[f].sp) :
                   Classement[f].sp[j] = o.Espece

\* C7, as stated: the subdirectory chosen for a file is the greatest survey
\* date that is less than or equal to the date of the file.
C7_PlusGrandReleveAnterieur ==
    cmd = "copier" =>
        \A i \in 1..Len(journal) :
            LET e == journal[i]
                avant == {d \in {releves[k] : k \in 1..Len(releves)} :
                             InfEgal(d, DatePrise(e.f))}
            IN  (e.op = "log_dest" /\ avant # {}) => e.b[1] = MaxDate(avant)

\* C7, amended: the subdirectory chosen for a file is the first survey
\* date, in the order of the manifest, that is greater than or equal to the
\* date of the file, and the last date of the manifest when there is none;
\* it is empty when the run read no survey date.
C7_PremierReleveSuivant ==
    cmd = "copier" =>
        \A i \in 1..Len(journal) :
            LET e == journal[i]
                apres == {k \in 1..Len(releves) :
                             InfEgal(DatePrise(e.f), releves[k])}
            IN  e.op = "log_dest" =>
                    e.b[1] = IF releves = <<>> THEN <<>>
                             ELSE IF apres # {} THEN releves[Min(apres)]
                             ELSE releves[Len(releves)]

\* C7, its case: with the surveys of 01/06 and 01/07, a file of 25/06 was
\* routed to the survey of 01/07
C7_Temoin ==
    /\ cmd = "copier"
    /\ releves = <<date_oca(d01062024), date_oca(d01072024)>>
    /\ DatePrise(6) = s20240625
    /\ \E i \in Evenements("log_dest", 6) :
           journal[i].b[1] = date_oca(d01072024)

\* C8, as stated: in an incremental copy a media file is classified exactly
\* when its date is after the watermark, the greatest survey date whose
\* directory was in the destination tree when the run started, 00000000
\* when there was none; in a full copy every media file is classified.
C8_FiltreIncremental ==
    (cmd = "copier" /\ infos.export_oca = "true" /\ pc # "debut") =>
        LET D == {date_oca(infos.releve[k]) : k \in 1..Len(infos.releve)}
            crees == {journal[i].b : i \in Evenements("mkdir", 0)}
            existants == {d \in D : /\ <<RacineOCA, d>> \in reps
                                    /\ <<RacineOCA, d>> \notin crees}
            filigrane == IF existants = {} THEN s00000000
                         ELSE MaxDate(existants)
        IN  \A i \in 1..(idx - 1) :
                LET f == source[i]
                IN  MEDIA_PAT(Catalogue[f].suffixe) =>
                        (Evenements("get_tags", f) # {}
                            <=> (full \/ Inferieur(filigrane, DatePrise(f))))

\* C9: the counter starts at 1 and advances once per file that passes the
\* filter, whatever the number of its species entries: the k-th such file
\* has number k, a file the filter rejects takes no number, and every
\* destination name of a file carries the number of the file.
C9_UnNumeroParFichier ==
    (cmd = "copier" /\ pc \notin {"debut", "fatal"}) =>
        LET classes == {i \in 1..Len(journal) : journal[i].op = "get_tags"}
        IN  /\ seq = 1 + Cardinality(classes)
            /\ \A i \in 1..(idx - 1) :
                   Evenements("get_tags", source[i]) # {}
                       <=> /\ MEDIA_PAT(Catalogue[source[i]].suffixe)
                           /\ Eligible(source[i], full, dernier)
            /\ \A i \in 1..Len(journal) :
                   journal[i].op = "log_dest" =>
                       LET avant == {j \in classes : j < i}
                           k == Cardinality(avant)
                       IN  /\ avant # {}
                           /\ journal[Max(avant)].f = journal[i].f
                           /\ SubSeq(journal[i].b[2], 1, 9)
                                  = sIMG \o Pad(Str(k), 4) \o <<"_">>

\* C9, its case: the first file had no species entry and took number 1, so
\* the names of the second file carry number 2
C9_Temoin ==
    /\ cmd = "copier"
    /\ pc = "fin"
    /\ source = <<4, 6>>
    /\ Classement[4].sp = <<>>
    /\ Evenements("get_tags", 4) # {}
    /\ Evenements("log_dest", 4) = {}
    /\ \E i \in Evenements("log_dest", 6) :
           SubSeq(journal[i].b[2], 1, 9)
               = <<"I", "M", "G", "_", "0", "0", "0", "2", "_">>

\* C10, as stated: the destination names of the species entries of a file
\* are pairwise different, so a file with N entries ends up as N files.
C10_NomsDistincts ==
    cmd = "copier" =>
        \A i \in 1..(idx - 1) :
            LET f == source[i]
                routes == Evenements("log_dest", f)
            IN  Evenements("get_tags", f) # {} =>
                    /\ Cardinality({journal[j].b : j \in routes})
                           = Len(Classement[f].sp)
                    /\ ~dry_run =>
                           Cardinality(Copies(f)) = Len(Classement[f].sp)

(***************************************************************************)
(* C11: within one run, two different source files never get the same     *)
(* destination path, whatever their species, quantity and detail: neither *)
(* the destinations computed and logged nor the paths copied to coincide  *)
(* for two different files.                                                *)
(***************************************************************************)
C11_DestinationsDistinctes ==
    \A i, j \in 1..Len(journal) :
        (/\ journal[i].op = journal[j].op
         /\ journal[i].op \in {"log_dest", "copy2"}
         /\ journal[i].f # journal[j].f)
        => journal[i].b # journal[j].b

\* Two files with the same species, quantity and detail went to the same
\* directory: their names differ by the number alone
C11_Temoin ==
    \E i, j \in 1..Len(journal) :
        /\ journal[i].op = "log_dest"
        /\ journal[j].op = "log_dest"
        /\ journal[i].f # journal[j].f
        /\ journal[i].b[1] = journal[j].b[1]
        /\ LET n1 == journal[i].b[2]
               n2 == journal[j].b[2]
           IN  /\ SubSeq(n1, 9, Len(n1)) = SubSeq(n2, 9, Len(n2))
               /\ n1 # n2

(***************************************************************************)
(* C12: in a dry run the copy performs no mutating operation: no directory *)
(* is created, no file is copied (the manifest included), no tag and no    *)
(* date is written, the anonymizer is not run, and the destination tree    *)
(* holds no file the run wrote.                                            *)
(***************************************************************************)
C12_SimulationSansEffet ==
    dry_run =>
        /\ dest = {}
        /\ \A k \in 1..Len(journal) :
               journal[k].op \notin {"mkdir", "copy2", "utime",
                                     "tagsfromfile", "deface"}

(***************************************************************************)
(* C13: an error on one file (its name or its metadata cannot be read, an  *)
(* external tool fails) never ends the run, and the file it hit is         *)
(* skipped: the run is not stopped by an exception, and no copy of a file  *)
(* follows the failure of its anonymization.                               *)
(***************************************************************************)
C13_ErreurSansAbandon ==
    /\ pc # "exception"
    /\ \A i, j \in 1..Len(journal) :
           (/\ i < j
            /\ journal[i].op = "deface"
            /\ journal[i].a = <<"echec">>
            /\ journal[j].op = "copy2")
           => journal[j].f # journal[i].f

(***************************************************************************)
(* C14: when information.yaml has no export_oca key the copy ends with a   *)
(* fatal error before any file is processed: the fatal error is all that   *)
(* happened (no directory created, no manifest and no media file copied,   *)
(* no file read), no file was numbered and the destination tree holds no   *)
(* file.                                                                   *)
(***************************************************************************)
C14_CleAbsenteFatale ==
    (cmd = "copier" /\ infos.export_oca = "absent" /\ pc # "debut")
        => /\ pc = "fatal"
           /\ journal = <<Evt("fatal", 0, <<>>, <<>>)>>
           /\ dest = {}
           /\ idx = 1
           /\ seq = 0

\* The key is absent, the source directory holds media files and the copy
\* has ended with the fatal error
C14_Temoin ==
    /\ cmd = "copier"
    /\ infos.export_oca = "absent"
    /\ pc = "fatal"
    /\ Len(source) = 2
    /\ \A i \in 1..2 : MEDIA_PAT(Catalogue[source[i]].suffixe)
    /\ reps = {}
    /\ dest = {}


(***************************************************************************)
(* C15: the quantity and the detail resolved for a species are those of    *)
(* the last entry whose key is the species, entries of other species       *)
(* changing nothing, and the defaults (1, the empty string) when no entry  *)
(* has that key; the destination name of the copy and the row of the       *)
(* export carry these same two values.                                     *)
(***************************************************************************)
C15_DerniereEntree ==
    (cmd = "resoudre" /\ pc = "fin") =>
        LET s == arg.s
            n == res.nb
            d == res.det
            kn == {k \in 1..Len(n) : n[k].cle = s}
            kd == {k \in 1..Len(d) : d[k].cle = s}
            qt == IF kn = {} THEN 1 ELSE Entier(n[Max(kn)].val)
            de == IF kd = {} THEN <<>> ELSE d[Max(kd)].val
        IN  /\ res.qt = qt
            /\ res.de = de
            /\ res.ligne.Quantite = qt
            /\ res.ligne.Details = de
            /\ res.dest =
                   Unidecode(Racine(1) \o <<"_">> \o corrige(s) \o <<"_">>
                                 \o Str(qt)
                                 \o (IF de = <<>> THEN <<>>
                                     ELSE <<"_">> \o de)
                                 \o sJpg)

(***************************************************************************)
(* C16: the quantity resolved for a species is at least 1 for every list   *)
(* of quantity entries: 3 for Chevreuil with the one tag                   *)
(* Quantite|Chevreuil_3, 1 for a species no entry names.                   *)
(***************************************************************************)
C16_QuantitePositive ==
    (cmd = "resoudre" /\ pc = "fin") =>
        /\ res.qt >= 1
        /\ (arg.tags = <<tChevreuil3>> /\ arg.s = sChevreuil) => res.qt = 3
        /\ (\A k \in 1..Len(res.nb) : res.nb[k].cle # arg.s) => res.qt = 1


\* The text before the first " {" of a path segment, Inconnu without one
AvantAccolade(segment) ==
    LET m == {i \in 1..(Len(segment) - 1) :
                  segment[i] = " " /\ segment[i + 1] = "{"}
    IN  IF m = {} THEN sInconnu ELSE SubSeq(segment, 1, Min(m) - 1)

(***************************************************************************)
(* C17: noms returns, in the order of the tags and with duplicates, one    *)
(* entry per tag that starts with Nature and none for the other tags: the  *)
(* text before " {" in the last path segment of the tag, Inconnu when the  *)
(* segment has no " {".                                                    *)
(***************************************************************************)
C17_UneEntreeParEtiquetteNature ==
    (cmd = "noms" /\ pc = "fin") =>
        LET nature == SelectSeq(arg, LAMBDA t : Commence(t, sNature))
        IN  res = [k \in 1..Len(nature) |->
                      AvantAccolade(Dernier(Split(nature[k], "|")))]


(***************************************************************************)
(* C18: for the grains M1, M2, M5 and M10, of side c = 1000, 2000, 5000    *)
(* and 10000, the degradation moves x and y, each on its own and with the  *)
(* same side, to floor(v / c) * c + c / 2, the centre of the cell of v:    *)
(* the result is in the cell of the input and at most c / 2 away from it,  *)
(* for negative inputs too, and (12345, 67890) gives (12500, 67500) with   *)
(* M1.                                                                     *)
(***************************************************************************)
C18_CentreDeLaCellule ==
    (cmd = "degrader" /\ pc = "fin" /\ arg.grain \in {"M1", "M2", "M5", "M10"})
        => LET c == Cote(arg.grain)
               p == res.coord
               ecart(a, b) == IF a < b THEN b - a ELSE a - b
           IN  /\ p[1] = (arg.x \div c) * c + (c \div 2)
               /\ p[2] = (arg.y \div c) * c + (c \div 2)
               /\ CentreDe(p[1], arg.x, c)
               /\ CentreDe(p[2], arg.y, c)
               /\ MemeCellule(p, <<arg.x, arg.y>>, c)
               /\ ecart(p[1], arg.x) <= c \div 2
               /\ ecart(p[2], arg.y) <= c \div 2
               /\ (arg.x = 12345 /\ arg.y = 67890 /\ arg.grain = "M1")
                      => p = <<12500, 67500>>

\* The point of the example was degraded with M1
C18_Temoin ==
    /\ cmd = "degrader"
    /\ pc = "fin"
    /\ arg = [x |-> 12345, y |-> 67890, grain |-> "M1"]
    /\ res.coord = <<12500, 67500>>

(***************************************************************************)
(* C19: with a grain code that is none of M1, M2, M5, M10 the degradation  *)
(* logs an error and returns the coordinates it was given, and the row of  *)
(* the species is emitted all the same, at the projected point.            *)
(***************************************************************************)
C19_GrainInconnuIdentite ==
    (cmd = "degrader" /\ pc = "fin"
        /\ arg.grain \notin {"M1", "M2", "M5", "M10"})
        => /\ res.erreur
           /\ res.coord = <<arg.x, arg.y>>
           /\ Len(res.lignes) = 1
           /\ res.lignes[1].Espece = sLoup
           /\ res.lignes[1].point = to_l93(arg.x, arg.y)
           /\ res.lignes[1].X_L93 = res.lignes[1].point[1]
           /\ res.lignes[1].Y_L93 = res.lignes[1].point[2]

\* A point off the centre of every cell was given with the code M3
C19_Temoin ==
    /\ cmd = "degrader"
    /\ pc = "fin"
    /\ arg = [x |-> 12345, y |-> 67890, grain |-> "M3"]
    /\ res.coord = <<12345, 67890>>
    /\ res.erreur
    /\ Len(res.lignes) = 1


\* The corrected names of the species found in the files of the catalogue
NomsCorriges ==
    UNION {{corrige(Classement[f].sp[j]) : j \in 1..Len(Classement[f].sp)} :
           f \in Fichiers}

(***************************************************************************)
(* C20: the species of every row of the export is a corrected name,        *)
(* corrige(s) for a species s of the files: a file tagged Canides is       *)
(* exported under the name corrige gives it, the other species under their *)
(* own name.                                                               *)
(***************************************************************************)
C20_EspeceCorrigee ==
    cmd = "exporter" =>
        \A k \in 1..Len(observations) :
            observations[k].Espece \in NomsCorriges


(***************************************************************************)
(* C21: the commune resolved for a list of tags is what follows the path   *)
(* of the department in the first tag that starts with it, and Inconnu     *)
(* when no tag does; the resolution never fails.  Both definitions of      *)
(* _commune are held to it.                                                *)
(***************************************************************************)
C21_PremiereCommune ==
    (cmd = "commune" /\ pc = "fin") =>
        LET k == {i \in 1..Len(arg) : Commence(arg[i], sPrefixeCommune)}
            com == IF k = {} THEN sInconnu
                   ELSE SubSeq(arg[Min(k)], Len(sPrefixeCommune) + 1,
                               Len(arg[Min(k)]))
        IN  /\ res.exporter = com
            /\ res.main # UnboundLocalError
            /\ res.main = com

\* IMG_<number on four digits>_<corrected species>_<quantity>, then _<detail>
\* when the detail is not empty, then the extension
NomAnnonce(n, s, qt, de, suffixe) ==
    sIMG \o Pad(Str(n), 4) \o <<"_">> \o corrige(s) \o <<"_">> \o Str(qt)
        \o (IF de # <<>> THEN <<"_">> \o de ELSE <<>>)
        \o suffixe

\* The destination logged last
DerniereDestination ==
    journal[Max({i \in 1..Len(journal) : journal[i].op = "log_dest"})]

nIMG0001Renard2 == <<"I", "M", "G", "_", "0", "0", "0", "1", "_", "R", "e",
    "n", "a", "r", "d", "_", "2", ".", "j", "p", "g">>

nIMG0002Lievre == <<"I", "M", "G", "_", "0", "0", "0", "2", "_", "L", "i",
    "e", "v", "r", "e", "_", "1", "_", "b", "l", "e", "s", "s", "e", ".", "j",
    "p", "g">>

\* The example of C22: with the one survey date 01/06/2024, the first file
\* processed, file 2 (02/06/2024, Renard, quantity 2), goes to
\* <root>/20240601/IMG_0001_Renard_2.jpg
C22_Exemple ==
    (/\ cmd = "copier"
     /\ infos.export_oca = "true"
     /\ infos.releve = <<d01062024>>
     /\ Len(source) >= 1
     /\ source[1] = 2
     /\ idx > 1)
    => /\ \E i \in 1..Len(journal) :
              journal[i] = Evt("log_dest", 2, <<"orig">>,
                               <<s20240601, nIMG0001Renard2>>)
       /\ ~dry_run =>
              \E r \in dest :
                  /\ r.chemin = <<RacineOCA, s20240601, nIMG0001Renard2>>
                  /\ r.contenu = <<"orig", 2>>

(***************************************************************************)
(* C22 as stated: the destination name is                                  *)
(* IMG_<number>_<corrige(species)>_<quantity>, followed by _<detail> if    *)
(* and only if the detail is not empty, followed by the extension of the   *)
(* file; and the example holds.                                            *)
(***************************************************************************)
C22_NomDeDestination ==
    /\ (cmd = "copier" /\ pc = "copie" /\ isp > 1) =>
           LET s == sp[isp - 1]
           IN  DerniereDestination.b[2] =
                   NomAnnonce(seq - 1, s, Quantite(s, nb, 1),
                              Detail(s, det, <<>>),
                              Catalogue[source[idx]].suffixe)
    /\ C22_Exemple

(***************************************************************************)
(* C22 amended: the destination name is that text once transliterated to   *)
(* ASCII (unidecode), so accented letters of the species and of the detail *)
(* lose their accent; and the example holds.                               *)
(***************************************************************************)
C22_NomTranslittere ==
    /\ (cmd = "copier" /\ pc = "copie" /\ isp > 1) =>
           LET s == sp[isp - 1]
           IN  DerniereDestination.b[2] =
                   Unidecode(NomAnnonce(seq - 1, s, Quantite(s, nb, 1),
                                        Detail(s, det, <<>>),
                                        Catalogue[source[idx]].suffixe))
    /\ C22_Exemple

\* The example was run, followed by the file whose species and detail have
\* accented letters
C22_Temoin ==
    /\ cmd = "copier"
    /\ pc = "fin"
    /\ ~dry_run
    /\ infos.releve = <<d01062024>>
    /\ source = <<2, 9>>
    /\ \E r \in dest :
           r.chemin = <<RacineOCA, s20240601, nIMG0001Renard2>>
    /\ \E r \in dest :
           r.chemin = <<RacineOCA, s20240601, nIMG0002Lievre>>


(***************************************************************************)
(* C23: every destination name the copy builds, for any number a file may  *)
(* get, any species, quantity and detail, matches OCA_PAT, and the name    *)
(* read back with OCA_PAT gives the species written in it (corrected and   *)
(* transliterated) and the quantity it was built with.                     *)
(***************************************************************************)
C23_AllerRetourOCA ==
    (cmd = "nom_oca" /\ pc = "fin") =>
        /\ res.spq # <<>>
        /\ res.spq[1] = Unidecode(corrige(arg.s))
        /\ Entier(res.spq[2]) = res.qt

\* C24, the tree first: when a media file is copied, the directory of
\* every survey date of the manifest is there
C24_ArbreAvantCopie ==
    (\E i \in 1..Len(journal) : journal[i].op = "copy2" /\ journal[i].f > 0)
        => \A k \in 1..Len(infos.releve) :
               <<RacineOCA, date_oca(infos.releve[k])>> \in reps

\* C24, the order for one file: its tags are read before it is anonymized
\* and before it is copied, and it is anonymized before any of its copies
C24_OrdreParFichier ==
    \A j \in 1..Len(journal) :
        LET e == journal[j]
        IN  /\ (e.op \in {"deface", "copy2"} /\ e.f > 0) =>
                   \E i \in 1..(j - 1) :
                       journal[i].op = "get_tags" /\ journal[i].f = e.f
            /\ e.op = "deface" =>
                   \A i \in 1..(j - 1) :
                       ~(journal[i].op = "copy2" /\ journal[i].f = e.f)

\* C24, one copy at a time: the tags of the media file are written into
\* each copy before the next copy is made
C24_MetadonneesAvantCopieSuivante ==
    \A i \in 1..Len(journal) :
        (journal[i].op = "copy2" /\ journal[i].f > 0) =>
            \E j \in (i + 1)..Len(journal) :
                /\ journal[j].op = "tagsfromfile"
                /\ journal[j].a = <<"media">>
                /\ journal[j].b = journal[i].b
                /\ \A k \in (i + 1)..j : journal[k].op # "copy2"

\* C24, each file once: no file has its tags read twice
C24_UneFoisParFichier ==
    \A i, j \in 1..Len(journal) :
        (journal[i].op = "get_tags" /\ journal[j].op = "get_tags"
            /\ journal[i].f = journal[j].f) => i = j

(***************************************************************************)
(* C24: a copy run goes Init, BuildDestinationTree, then for each eligible *)
(* file Classify, (Anonymize), ComputeDestinationName, Copy,               *)
(* PropagateMetadata, then Done: the directories of all the survey dates   *)
(* exist before a media file is copied, the steps of a file come in that   *)
(* order, each copy gets its metadata before the next copy, each file is   *)
(* handled once, and the run does not end before the last file.            *)
(***************************************************************************)
C24_OrdreDUneCopie ==
    cmd = "copier" =>
        /\ C24_ArbreAvantCopie
        /\ C24_OrdreParFichier
        /\ C24_MetadonneesAvantCopieSuivante
        /\ C24_UneFoisParFichier
        /\ pc # "exception"



\* The watermark of a run is assigned when the manifest is read and by no
\* later step of the same run
C25_LuUneFois ==
    (pc # "debut" /\ pc' # "debut") => dernier' = dernier

\* The watermark read by a run is at least the one read by the run before
C25_Croissant ==
    (cmd = "copier" /\ Len(passe) >= 1 /\ pc # "debut")
        => InfEgal(passe[Len(passe)].dernier, dernier)

EtiquettesFichier ==
    {tRenard, tLoup, tRenard2, tRenard0, tLoup3, tChevreuil3, tLoupMale,
     tLoupFemelle}

\* The orders of n tags
Ordres(n) == {p \in [1..n -> 1..n] : \A i, j \in 1..n : p[i] = p[j] => i = j}

\* The tags ts in the order p
Reordonner(ts, p) == [i \in 1..Len(ts) |-> ts[p[i]]]

\* What copier and exporter compute for the species of a file tagged ts:
\* the quantity and the detail of each species (copier.py:177-186), the
\* names of its copies (188-205) and its rows in the export
Calculs(ts) ==
    LET especes == {noms(ts)[i] : i \in 1..Len(noms(ts))}
    IN  [triplets |-> {<<s, Quantite(s, qte(ts), 1),
                         Detail(s, details(ts), <<>>)>> : s \in especes},
         dests |-> {NomDest(Racine(1), s, qte(ts), details(ts), sJpg) :
                        s \in especes},
         lignes |-> {Observation(0, s, ts, sDateDefaut, 0, 0, 0) :
                        s \in especes}]

InitPermuter ==
    /\ cmd = "permuter"
    /\ pc = "debut"
    /\ \E ts \in Listes(EtiquettesFichier, MaxEtiquettes) :
           arg \in [tags : {ts}, ordre : Ordres(Len(ts))]
    /\ res = <<>>
    /\ Repos

\* The same file read with its tags as they are and in the other order
Permuter ==
    /\ cmd = "permuter"
    /\ pc = "debut"
    /\ res' = [tels |-> Calculs(arg.tags),
               permutes |-> Calculs(Reordonner(arg.tags, arg.ordre))]
    /\ pc' = "fin"
    /\ UNCHANGED <<cmd, arg, commandes>>

SpecPermuter == InitPermuter /\ [][Permuter]_vars

(***************************************************************************)
(* C26: the tags of a file are unordered: in every order of its tag list   *)
(* the set of (species, quantity, detail) triples computed for the file    *)
(* is the same, and so are the set of its destination names and the set    *)
(* of its observations.                                                    *)
(***************************************************************************)
C26_OrdreIndifferent ==
    (cmd = "permuter" /\ pc = "fin") =>
        /\ res.permutes.triplets = res.tels.triplets
        /\ res.permutes.dests = res.tels.dests
        /\ res.permutes.lignes = res.tels.lignes


(***************************************************************************)
(* qte and details called on the tags of a file.                           *)
(***************************************************************************)
tPicVert2 == <<"Q", "u", "a", "n", "t", "i", "t", "e_aigu", "|", "P", "i",
    "c", "-", "v", "e", "r", "t", "_", "2">>

tDetailsSansValeur == <<"D", "e_aigu", "t", "a", "i", "l", "s", "|", "L",
    "o", "u", "p">>

\* Tags of the three categories and a place tag: quantities and details
\* with and without value, an accented detail, a hyphenated species
EtiquettesMelees ==
    {tRenard, tAutrans, tRenard2, tQuantiteSansNombre, tPicVert2, tLoupMale,
     tLievreBlesse, tDetailsSansValeur}

InitExtraire ==
    /\ cmd = "extraire"
    /\ pc = "debut"
    /\ arg \in Listes(EtiquettesMelees, MaxEtiquettes)
    /\ res = <<>>
    /\ Repos

\* nb = qte(tags) and det = details(tags) (copier.py:144-145)
Extraire ==
    /\ cmd = "extraire"
    /\ pc = "debut"
    /\ res' = [nb |-> qte(arg), det |-> details(arg)]
    /\ pc' = "fin"
    /\ UNCHANGED <<cmd, arg, commandes>>

SpecExtraire == InitExtraire /\ [][Extraire]_vars

\* The entry announced for a path segment: species and value on the two
\* sides of the underscore when both are there (the value made of digits
\* for a quantity), the placeholder otherwise
EntreeAnnoncee(segment, quantite) ==
    LET u == {i \in 1..Len(segment) : segment[i] = "_"}
        i == Min(u)
        valeur == SubSeq(segment, i + 1, Len(segment))
        forme == /\ u # {}
                 /\ 1 < i
                 /\ i < Len(segment)
                 /\ quantite => \A k \in 1..Len(valeur) : EstChiffre(valeur[k])
    IN  IF forme THEN [cle |-> SubSeq(segment, 1, i - 1), val |-> valeur]
        ELSE [cle |-> sInconnu,
              val |-> IF quantite THEN <<"1">> ELSE <<>>]

RECURSIVE EntreesAnnoncees(_, _)
\* One announced entry per tag of the category, in the order of the tags
EntreesAnnoncees(ts, quantite) ==
    IF Len(ts) = 0 THEN <<>>
    ELSE (IF (IF quantite THEN QTE_PAT(ts[1]) ELSE DET_PAT(ts[1]))
          THEN <<EntreeAnnoncee(Dernier(Split(ts[1], "|")), quantite)>>
          ELSE <<>>) \o EntreesAnnoncees(Tail(ts), quantite)

(***************************************************************************)
(* C27: qte and details each return, in the order of the tags, exactly one *)
(* single-entry mapping per tag of their category (Quantite, Details) and  *)
(* none for the other tags: species and count, or species and text, when   *)
(* the last path segment has the form <species>_<value>, the placeholder   *)
(* (Inconnu, "1") or (Inconnu, "") otherwise; the entries stay a sequence, *)
(* two entries of one species are both kept.                               *)
(***************************************************************************)
C27_UneEntreeParEtiquette ==
    (cmd = "extraire" /\ pc = "fin") =>
        /\ res.nb = EntreesAnnoncees(arg, TRUE)
        /\ res.det = EntreesAnnoncees(arg, FALSE)
        /\ Len(res.nb) = Cardinality({k \in 1..Len(arg) : QTE_PAT(arg[k])})
        /\ Len(res.det) = Cardinality({k \in 1..Len(arg) : DET_PAT(arg[k])})


(***************************************************************************)
(* C28: when information.yaml has export_oca set to false the copy copies  *)
(* nothing: no file is copied or written under the destination directory   *)
(* and no directory is created, in a full run as in an incremental one.    *)
(***************************************************************************)
C28_RienSansExport ==
    (cmd = "copier" /\ infos.export_oca = "false") =>
        /\ dest = {}
        /\ \A k \in 1..Len(journal) :
               journal[k].op \notin {"mkdir", "copy2", "tagsfromfile"}


\* The media files with a species that the current run has passed over
\* because their date is not greater than the watermark
Ecartes ==
    {source[i] : i \in {k \in 1..(idx - 1) :
        /\ MEDIA_PAT(Catalogue[source[k]].suffixe)
        /\ Classement[source[k]].indexable
        /\ Classement[source[k]].sp # <<>>
        /\ ~Eligible(source[k], full, dernier)}}

(***************************************************************************)
(* C29: in incremental mode no file is lost: over runs in a row on the     *)
(* same source and destination (dry runs and runs stopped before their     *)
(* last file among them), every media file with a species that a later     *)
(* incremental run skips because its date is not greater than the          *)
(* watermark already has a copy in the destination tree.                   *)
(***************************************************************************)
C29_RienDePerdu ==
    (cmd = "copier" /\ Len(passe) >= 1 /\ ~full /\ pc # "debut") =>
        \A f \in Ecartes : \E r \in dest : r.meta = f /\ r.contenu[1] # "xmp"


(***************************************************************************)
(* C30: the copy never changes the source directory: at every point of a   *)
(* run (full, incremental or dry, with or without files tagged with a      *)
(* human activity) the manifest, every listed file and every sidecar file  *)
(* are there with their name, content and modification time; what is       *)
(* written is a directory or a file of the destination tree, or the        *)
(* temporary file of the anonymizer.                                       *)
(***************************************************************************)
C30_SourceIntacte ==
    cmd = "copier" =>
        /\ origine = ArbreSource(source, infos)
        /\ \A k \in 1..Len(journal) :
               /\ journal[k].op = "mkdir" => journal[k].b \in reps
               /\ journal[k].op \in {"copy2", "utime", "tagsfromfile"}
                      => \E r \in dest : r.chemin = journal[k].b
        /\ tmp[1] \in {"vide", "anon"}

\* A run without --dry_run has ended after copying a file anonymized from
\* the temporary file and a file with its sidecar file
C30_Temoin ==
    /\ cmd = "copier"
    /\ pc = "fin"
    /\ ~dry_run
    /\ Len(source) = 2
    /\ \E r \in dest : r.contenu[1] = "anon"
    /\ \E r \in dest : r.contenu[1] = "xmp"
    /\ origine = ArbreSource(source, infos)

=============================================================================
